---------------------------- MODULE Spec2Model ----------------------------
(***************************************************************************)
(* A model of the SVG-to-trajectory pipeline of the UR3e drawing           *)
(* application: the path-command interpreters, the workspace mappers, the  *)
(* trajectory generators (pen state machine) and the replay loop of the    *)
(* drawing script.                                                         *)
(*                                                                         *)
(* Numbers.  Lengths are integers (millimetres); orientations are integers *)
(* in hundredths of a radian.  A Python value that may be None is a tuple: *)
(* None is <<>> and the number v is <<v>>.                                 *)
(* A drawing command is the tuple <<type, x, y>> the code builds           *)
(* (('move', x, y) / ('line', x, y)); a trajectory step is the pair        *)
(* <<type, pose>> with pose = <<x, y, z, rx, ry, rz>>.                      *)
(***************************************************************************)
EXTENDS Integers, Sequences, FiniteSets, TLC

VARIABLES
    pc,               \* position of the modelled run
    converter,        \* which converter runs: "Onlab" (Onlab/svg_code.py) or "root" (svg_code.py)
    robot_config,     \* RobotConfig instance of Onlab/svg_code.py
    robot_commands,   \* generate_trajectory: the mapped commands given to it
    gi,               \* generate_trajectory: number of commands the for loop has consumed
    trajectory,       \* generate_trajectory: the list being built / returned
    pen_state,        \* generate_trajectory: "up" / "down"
    current_x,        \* generate_trajectory: tracked position, None before the first command
    current_y,
    paths,            \* path interpreters: the 'd' strings of the document, tokenized
    path_index,       \* path interpreters: number of paths already interpreted
    parser,           \* path interpreters: the locals of the while loop over one path
    drawing_commands, \* parse_svg_path: the command list of the document
    map_commands,     \* workspace mappers: the commands given to the mapper
    preserve_aspect_ratio,  \* Onlab converter attribute
    scale_factor,     \* Onlab converter attribute (a rational <<num, den>>)
    map_result,       \* workspace mappers: [raised, commands] once the mapper has ended
    rects,            \* parse_svg_path: the <rect> elements of the document
    lines,            \* parse_svg_path: the <line> elements of the document
    shape_index,      \* parse_svg_path: elements done in the current element loop
    file,             \* the trajectory JSON file save_trajectory writes
    HOME_POSITION,    \* drawing_app.py global
    DRAWING_HEIGHT,   \* drawing_app.py global, None until a calibration sets it
    coordinates,      \* drawing_app.py main: the loaded trajectory
    replay_i,         \* drawing_app.py main: index of the replay loop
    sent,             \* the targets of the movel scripts sent to the robot
    stage,            \* convert_svg_to_trajectory: the closer/optimizer stage's bookkeeping
    circles,          \* parse_svg_path: the <circle> elements of the document
    process,          \* Onlab/svg_code.py main(): the input file and the exit status
    loaded,           \* the trajectory readers: which reader ran and what it made of the file
    controller,       \* Onlab/csakdash.py URDrawingController: its attributes and the lists they name
    session           \* the robot session: the commands sent, the one executing, the executor's locals

genVars == <<robot_commands, gi, trajectory, pen_state, current_x, current_y>>

parseVars == <<paths, path_index, parser, drawing_commands>>

mapVars == <<map_commands, preserve_aspect_ratio, scale_factor, map_result>>

docVars == <<rects, lines, shape_index>>

replayVars == <<file, HOME_POSITION, DRAWING_HEIGHT, coordinates, replay_i, sent>>

robotVars == <<loaded, controller, session>>

vars == <<pc, converter, robot_config, genVars, parseVars, mapVars, docVars, replayVars,
          stage, circles, process, robotVars>>

None == <<>>
Some(v) == <<v>>
Val(o) == o[1]

Abs(n) == IF n < 0 THEN -n ELSE n

Last(s) == s[Len(s)]

\* All sequences over S of length 0..n.
RECURSIVE SeqsUpTo(_, _)
SeqsUpTo(S, n) ==
    IF n = 0 THEN {<<>>}
    ELSE LET shorter == SeqsUpTo(S, n - 1)
         IN  shorter \cup {Append(s, e) : s \in {t \in shorter : Len(t) = n - 1}, e \in S}

\* The variables of a component that a specification does not run.
RECURSIVE Flatten(_)
Flatten(ss) == IF ss = <<>> THEN <<>> ELSE Head(ss) \o Flatten(Tail(ss))

\* Exact arithmetic for the expressions the code computes in floats: a number
\* is the fraction <<num, den>> with den > 0 in lowest terms.
RECURSIVE Gcd(_, _)
Gcd(a, b) == IF b = 0 THEN a ELSE Gcd(b, a % b)

Rat(n, d) ==
    LET sn == IF d < 0 THEN -n ELSE n
        sd == Abs(d)
        g  == Gcd(Abs(sn), sd)
    IN  <<sn \div g, sd \div g>>

FromInt(n) == <<n, 1>>
RatAdd(a, b) == Rat(a[1] * b[2] + b[1] * a[2], a[2] * b[2])
RatSub(a, b) == Rat(a[1] * b[2] - b[1] * a[2], a[2] * b[2])
RatMul(a, b) == Rat(a[1] * b[1], a[2] * b[2])
RatHalf(a) == Rat(a[1], 2 * a[2])
RatLeq(a, b) == a[1] * b[2] <= b[1] * a[2]
RatMin(a, b) == IF RatLeq(a, b) THEN a ELSE b
RatMax(a, b) == IF RatLeq(a, b) THEN b ELSE a
RatAbs(a) == <<Abs(a[1]), a[2]>>

GenIdle ==
    /\ robot_commands = <<>> /\ gi = 0 /\ trajectory = <<>>
    /\ pen_state = "up" /\ current_x = None /\ current_y = None

ParseIdle ==
    /\ paths = <<>> /\ path_index = 0 /\ parser = <<>> /\ drawing_commands = <<>>

ReplayIdle ==
    /\ file = <<>> /\ HOME_POSITION = <<>> /\ DRAWING_HEIGHT = None
    /\ coordinates = <<>> /\ replay_i = 0 /\ sent = <<>>

DocIdle == rects = <<>> /\ lines = <<>> /\ shape_index = 0

StageIdle == stage = [before |-> <<>>, outputs |-> <<>>]

CircleIdle == circles = <<>>

ProcessIdle == process = [svg_file |-> "None", mapped |-> <<>>, exit_status |-> None]

RobotIdle == loaded = <<>> /\ controller = <<>> /\ session = <<>>

MapIdle ==
    /\ map_commands = <<>> /\ preserve_aspect_ratio = TRUE
    /\ scale_factor = <<1, 1>> /\ map_result = <<>>

-----------------------------------------------------------------------------
(* Configuration: Onlab/svg_code.py module constants and RobotConfig.      *)

PEN_UP_Z == 20
PEN_DOWN_Z == 0
RX == 220
RY == 220
RZ == 0

\* RobotConfig.__init__ defaults (before load_calibration).
DefaultHome == <<-37, -295, -42, 220, 220, 0>>

RobotConfigDefaults ==
    [center_x |-> 0, center_y |-> 0, z_surface |-> 0,
     rx |-> RX, ry |-> RY, rz |-> RZ, home_position |-> DefaultHome]

\* The calibration files the model draws from: absent, or a JSON object
\* whose keys 'drawing_surface' and 'home_position' may each be missing.
CalibrationFiles ==
    {[exists |-> FALSE, drawing_surface |-> None, home_position |-> None]}
    \cup
    {[exists |-> TRUE, drawing_surface |-> s, home_position |-> h] :
        s \in {None, Some(-145), Some(-62)},
        h \in {None, Some(<<-37, -295, -42, 220, 220, 0>>),
                     Some(<<10, -300, -125, 0, 314, 0>>),
                     Some(<<10, -300, -125>>)}}

\* RobotConfig.__init__ followed by load_calibration.
RobotConfig(calibration) ==
    IF ~calibration.exists THEN RobotConfigDefaults
    ELSE LET d    == RobotConfigDefaults
             zs   == IF calibration.drawing_surface = None THEN d.z_surface
                     ELSE Val(calibration.drawing_surface)
             home == IF calibration.home_position = None THEN d.home_position
                     ELSE Val(calibration.home_position)
         IN  [center_x |-> home[1], center_y |-> home[2], z_surface |-> zs,
              rx |-> IF Len(home) >= 6 THEN home[4] ELSE d.rx,
              ry |-> IF Len(home) >= 6 THEN home[5] ELSE d.ry,
              rz |-> IF Len(home) >= 6 THEN home[6] ELSE d.rz,
              home_position |-> home]

RobotConfigs == {RobotConfig(c) : c \in CalibrationFiles}

\* svg_code.py (repository root): main()'s constructor arguments, in mm.
Root_Z_SURFACE == 0
Root_PEN_UP_Z == 70
Root_PEN_DOWN_Z == 0
Root_RX == 0
Root_RY == 314
Root_RZ == 0

-----------------------------------------------------------------------------
(* Trajectory generator, Onlab/svg_code.py generate_trajectory.            *)

MaxCmds == 4

GenPoints == {<<0, 0>>, <<3, 0>>, <<3, 4>>}

GenCommands == {<<t, p[1], p[2]>> : t \in {"move", "line"}, p \in GenPoints}

\* A slip that would put pen-up steps at drawing height.
PenUpPose_AtPenDownZ(x, y) ==
    <<x, y, robot_config.z_surface + PEN_DOWN_Z,
      robot_config.rx, robot_config.ry, robot_config.rz>>

PenUpPose(x, y) ==
    <<x, y, robot_config.z_surface + PEN_UP_Z,
      robot_config.rx, robot_config.ry, robot_config.rz>>

PenDownPose(x, y) ==
    <<x, y, robot_config.z_surface + PEN_DOWN_Z,
      robot_config.rx, robot_config.ry, robot_config.rz>>

SafePose ==
    <<robot_config.home_position[1], robot_config.home_position[2],
      robot_config.home_position[3],
      robot_config.rx, robot_config.ry, robot_config.rz>>

\* "if not robot_commands: return []"
GenEmpty ==
    /\ pc = "gen" /\ converter = "Onlab"
    /\ robot_commands = <<>>
    /\ pc' = "done"
    /\ UNCHANGED <<robotVars, process, circles, stage, converter, robot_config, genVars, parseVars, mapVars,
                   docVars, replayVars>>

\* The steps one 'move' command appends.
MoveSteps(x, y) ==
    (IF pen_state = "down" /\ current_x # None /\ current_y # None
     THEN <<<<"move", PenUpPose(Val(current_x), Val(current_y))>>>>
     ELSE <<>>)
    \o <<<<"move", PenUpPose(x, y)>>>>

\* One iteration of the for loop on a 'move' command.
GenMove ==
    /\ pc = "gen" /\ converter = "Onlab"
    /\ gi < Len(robot_commands)
    /\ LET cmd == robot_commands[gi + 1]
       IN  /\ cmd[1] = "move"
           /\ trajectory' = trajectory \o MoveSteps(cmd[2], cmd[3])
           /\ pen_state' = "up"
           /\ current_x' = Some(cmd[2])
           /\ current_y' = Some(cmd[3])
    /\ gi' = gi + 1
    /\ UNCHANGED <<robotVars, process, circles, stage, pc, converter, robot_config, robot_commands, parseVars,
                   mapVars, docVars, replayVars>>

\* The steps one 'line' command appends.
LineSteps(x, y) ==
    (IF pen_state = "up" /\ current_x # None /\ current_y # None
     THEN <<<<"line", PenDownPose(Val(current_x), Val(current_y))>>>>
     ELSE <<>>)
    \o <<<<"line", PenDownPose(x, y)>>>>

\* One iteration of the for loop on a 'line' command.
GenLine ==
    /\ pc = "gen" /\ converter = "Onlab"
    /\ gi < Len(robot_commands)
    /\ LET cmd == robot_commands[gi + 1]
       IN  /\ cmd[1] = "line"
           /\ trajectory' = trajectory \o LineSteps(cmd[2], cmd[3])
           /\ pen_state' = "down"
           /\ current_x' = Some(cmd[2])
           /\ current_y' = Some(cmd[3])
    /\ gi' = gi + 1
    /\ UNCHANGED <<robotVars, process, circles, stage, pc, converter, robot_config, robot_commands, parseVars,
                   mapVars, docVars, replayVars>>

\* A slip that would leave out the final lift.
FinalLift_Never == <<>>

\* "Always end with pen up": the final lift, appended after the loop.
FinalLift ==
    IF pen_state = "down" /\ current_x # None /\ current_y # None
    THEN <<<<"move", PenUpPose(Val(current_x), Val(current_y))>>>>
    ELSE <<>>

\* "Add a final move to a safe position above the drawing".
SafeMove(traj) ==
    IF traj # <<>> THEN <<<<"move", SafePose>>>> ELSE <<>>

\* The code after the for loop, up to the return.
GenFinish ==
    /\ pc = "gen" /\ converter = "Onlab"
    /\ robot_commands # <<>>
    /\ gi = Len(robot_commands)
    /\ trajectory' = (trajectory \o FinalLift) \o SafeMove(trajectory \o FinalLift)
    /\ pc' = "done"
    /\ UNCHANGED <<robotVars, process, circles, stage, converter, robot_config, robot_commands, gi, pen_state,
                   current_x, current_y, parseVars, mapVars, docVars, replayVars>>

(* svg_code.py (repository root) generate_trajectory: no pen state, one    *)
(* step per command.                                                       *)
RootStep(cmd) ==
    IF cmd[1] = "move"
    THEN <<"move", <<cmd[2], cmd[3], Root_Z_SURFACE + Root_PEN_UP_Z,
                     Root_RX, Root_RY, Root_RZ>>>>
    ELSE <<"line", <<cmd[2], cmd[3], Root_Z_SURFACE + Root_PEN_DOWN_Z,
                     Root_RX, Root_RY, Root_RZ>>>>

RootGenerateTrajectory ==
    /\ pc = "gen" /\ converter = "root"
    /\ trajectory' = [k \in 1..Len(robot_commands) |-> RootStep(robot_commands[k])]
    /\ gi' = Len(robot_commands)
    /\ pc' = "done"
    /\ UNCHANGED <<robotVars, process, circles, stage, converter, robot_config, robot_commands, pen_state,
                   current_x, current_y, parseVars, mapVars, docVars, replayVars>>

GenInit ==
    /\ RobotIdle
    /\ ProcessIdle
    /\ CircleIdle
    /\ StageIdle
    /\ pc = "gen"
    /\ converter \in {"Onlab", "root"}
    /\ robot_config \in RobotConfigs
    /\ robot_commands \in SeqsUpTo(GenCommands, MaxCmds)
    /\ gi = 0
    /\ trajectory = <<>>
    /\ pen_state = "up"
    /\ current_x = None
    /\ current_y = None
    /\ ParseIdle
    /\ MapIdle
    /\ DocIdle
    /\ ReplayIdle

GenNext ==
    \/ GenEmpty
    \/ GenMove
    \/ GenLine
    \/ GenFinish
    \/ RootGenerateTrajectory

SpecGen == GenInit /\ [][GenNext]_vars

-----------------------------------------------------------------------------
(* Properties of the trajectory generators.                                *)

StepTag(step) == step[1]
StepXY(step) == <<step[2][1], step[2][2]>>
StepZ(step) == step[2][3]

PenUpZ ==
    IF converter = "Onlab" THEN robot_config.z_surface + PEN_UP_Z
    ELSE Root_Z_SURFACE + Root_PEN_UP_Z

PenDownZ ==
    IF converter = "Onlab" THEN robot_config.z_surface + PEN_DOWN_Z
    ELSE Root_Z_SURFACE + Root_PEN_DOWN_Z

OnlabDone == pc = "done" /\ converter = "Onlab"

\* A Line step that opens a stroke: the first step, or one that follows a Move step.
OpensStroke(k) ==
    /\ StepTag(trajectory[k]) = "line"
    /\ (k = 1 \/ StepTag(trajectory[k - 1]) = "move")

\* A pen-lower transition: a Line step in place, at the XY of the Move step before it.
LowerInPlace(k) ==
    /\ k > 1
    /\ StepTag(trajectory[k]) = "line"
    /\ StepTag(trajectory[k - 1]) = "move"
    /\ StepXY(trajectory[k]) = StepXY(trajectory[k - 1])

\* C1: in the trajectory generate_trajectory returns, every stroke (run of
\* Line steps since the last pen-up step, or since the start) begins with
\* exactly one pen-lower transition, a lower-in-place step at the XY where
\* the pen was up, and the trajectory ends with the pen up.
C1_PenLowerBeforeEveryLine ==
    OnlabDone =>
        /\ \A k \in 1..Len(trajectory) : OpensStroke(k) => LowerInPlace(k)
        /\ trajectory # <<>> => StepTag(Last(trajectory)) = "move"

IsSafeMove(k) == OnlabDone /\ k = Len(trajectory)

RECURSIVE MachineSteps(_, _, _)
MachineSteps(cmds, pen, cur) ==
    IF cmds = <<>> THEN <<>>
    ELSE LET c      == Head(cmds)
             target == Some(<<c[2], c[3]>>)
         IN  IF c[1] = "move"
             THEN (IF pen = "down" THEN <<[tag |-> "move", xy |-> cur]>> ELSE <<>>)
                  \o <<[tag |-> "move", xy |-> target]>>
                  \o MachineSteps(Tail(cmds), "up", target)
             ELSE (IF pen = "up" THEN <<[tag |-> "line", xy |-> cur]>> ELSE <<>>)
                  \o <<[tag |-> "line", xy |-> target]>>
                  \o MachineSteps(Tail(cmds), "down", target)

StepIs(step, m) ==
    /\ StepTag(step) = m.tag
    /\ StepZ(step) = (IF m.tag = "move" THEN PenUpZ ELSE PenDownZ)
    /\ m.xy # None => StepXY(step) = Val(m.xy)

\* C9: while the for loop of generate_trajectory runs, the steps emitted for
\* the commands consumed so far are exactly the steps of the pen state
\* machine: lift + target for a Move while down, target for a Move while up,
\* lower + target for a Line while up, target for a Line while down.
C9_EmitsStateMachineSteps ==
    (pc = "gen" /\ converter = "Onlab") =>
        LET m == MachineSteps(SubSeq(robot_commands, 1, gi), "up", None)
        IN  /\ Len(trajectory) = Len(m)
            /\ \A k \in 1..Len(m) : StepIs(trajectory[k], m[k])

\* Lift-in-place and lower-in-place steps the for loop emits.
NLifts(cmds) ==
    Cardinality({k \in 2..Len(cmds) : cmds[k][1] = "move" /\ cmds[k - 1][1] = "line"})
NLowers(cmds) ==
    Cardinality({k \in 2..Len(cmds) : cmds[k][1] = "line" /\ cmds[k - 1][1] = "move"})

\* C10: for a non-empty command sequence the returned trajectory ends with
\* one Move to the safe pose; the step before it is a lift-in-place at the
\* last XY exactly when the last command left the pen down (the step count
\* leaves room for no other step), and nothing follows the safe Move.
C10_TrailingSafeMove ==
    (OnlabDone /\ robot_commands # <<>>) =>
        LET n       == Len(trajectory)
            last    == Last(robot_commands)
            penDown == last[1] = "line"
        IN  /\ n = Len(robot_commands) + NLifts(robot_commands)
                   + NLowers(robot_commands) + (IF penDown THEN 1 ELSE 0) + 1
            /\ trajectory[n] = <<"move", SafePose>>
            /\ trajectory[n - 1] = <<"move", PenUpPose(last[2], last[3])>>
            /\ penDown => trajectory[n - 2] = <<"line", PenDownPose(last[2], last[3])>>

\* Finished runs of both kinds: the last command a Line after a Move, and
\* (in another run) the last command a Move.
C10_Witness ==
    /\ OnlabDone
    /\ Len(robot_commands) >= 3
    /\ Last(robot_commands)[1] = "line"
    /\ robot_commands[1][1] = "move"
    /\ robot_commands[2][1] = "line"
    /\ robot_commands[3][1] = "move"

-----------------------------------------------------------------------------
(* Path command interpreters: Onlab/svg_code.py parse_path_data,           *)
(* svg_code.py parse_path_commands and Onlab/claude_project.py             *)
(* convert_svg_to_trajectory (converter = "Onlab" / "root" / "claude").    *)
(*                                                                         *)
(* A token is what split() leaves of the path data: a command letter, a    *)
(* text float() accepts, or a text float() rejects with ValueError.  The   *)
(* token alphabet holds the letters M m L l H h V v Z z; the curve and arc *)
(* letters are not drawn.                                                  *)

Cmd(l) == [kind |-> "cmd", letter |-> l, num |-> 0]
Num(n) == [kind |-> "num", letter |-> "", num |-> n]
Junk   == [kind |-> "junk", letter |-> "", num |-> 0]

\* The locals of the interpreter at the start of a path; dc is the list
\* the name drawing_commands is bound to inside the interpreter.  x1 and y1
\* are the control point locals of the curve branches, None while unbound
\* ("'x1' in locals()" is false).
NewParser(tokens, dc) ==
    [tokens |-> tokens, i |-> 0, current_cmd |-> "None",
     abs_position |-> <<0, 0>>, start_position |-> <<0, 0>>,
     first_position |-> <<0, 0>>, drawing_commands |-> dc,
     x1 |-> None, y1 |-> None]

\* tokens[i + k] of the code (Python indexes from 0).
Tok(p, k) == p.tokens[p.i + 1 + k]
IsFloat(p, k) == Tok(p, k).kind = "num"

\* "i += 1"
Skip(p) == [p EXCEPT !.i = p.i + 1]

\* Token is a command letter: remember it as the current command.
ReadLetter(p) == [p EXCEPT !.current_cmd = Tok(p, 0).letter, !.i = p.i + 1]

\* M/m, Onlab: first_position follows the Move only when nothing has been
\* emitted yet or the previous command is itself a Move.
OnlabMoveTo(p) ==
    IF ~(p.i + 1 < Len(p.tokens)) THEN Skip(p)
    ELSE IF ~(IsFloat(p, 0) /\ IsFloat(p, 1)) THEN Skip(p)
    ELSE LET rel == p.current_cmd = "m"
             x   == Tok(p, 0).num + (IF rel THEN p.abs_position[1] ELSE 0)
             y   == Tok(p, 1).num + (IF rel THEN p.abs_position[2] ELSE 0)
             dc  == p.drawing_commands
         IN  [p EXCEPT !.first_position =
                           IF Len(dc) = 0 \/ Last(dc)[1] = "move" THEN <<x, y>> ELSE @,
                       !.abs_position = <<x, y>>,
                       !.start_position = <<x, y>>,
                       !.drawing_commands = Append(dc, <<"move", x, y>>),
                       !.i = p.i + 2]

\* M/m, svg_code.py and claude_project.py.
RootMoveTo(p) ==
    IF ~(p.i + 1 < Len(p.tokens)) THEN Skip(p)
    ELSE IF ~(IsFloat(p, 0) /\ IsFloat(p, 1)) THEN Skip(p)
    ELSE LET rel == p.current_cmd = "m"
             x   == Tok(p, 0).num + (IF rel THEN p.abs_position[1] ELSE 0)
             y   == Tok(p, 1).num + (IF rel THEN p.abs_position[2] ELSE 0)
         IN  [p EXCEPT !.abs_position = <<x, y>>,
                       !.drawing_commands = Append(@, <<"move", x, y>>),
                       !.i = p.i + 2]

\* L/l
LineTo(p) ==
    IF ~(p.i + 1 < Len(p.tokens)) THEN Skip(p)
    ELSE IF ~(IsFloat(p, 0) /\ IsFloat(p, 1)) THEN Skip(p)
    ELSE LET rel == p.current_cmd = "l"
             x   == Tok(p, 0).num + (IF rel THEN p.abs_position[1] ELSE 0)
             y   == Tok(p, 1).num + (IF rel THEN p.abs_position[2] ELSE 0)
         IN  [p EXCEPT !.abs_position = <<x, y>>,
                       !.drawing_commands = Append(@, <<"line", x, y>>),
                       !.i = p.i + 2]

\* H/h
Horizontal(p) ==
    IF ~IsFloat(p, 0) THEN Skip(p)
    ELSE LET x == Tok(p, 0).num + (IF p.current_cmd = "h" THEN p.abs_position[1] ELSE 0)
         IN  [p EXCEPT !.abs_position = <<x, p.abs_position[2]>>,
                       !.drawing_commands = Append(@, <<"line", x, p.abs_position[2]>>),
                       !.i = p.i + 1]

\* V/v
Vertical(p) ==
    IF ~IsFloat(p, 0) THEN Skip(p)
    ELSE LET y == Tok(p, 0).num + (IF p.current_cmd = "v" THEN p.abs_position[2] ELSE 0)
         IN  [p EXCEPT !.abs_position = <<p.abs_position[1], y>>,
                       !.drawing_commands = Append(@, <<"line", p.abs_position[1], y>>),
                       !.i = p.i + 1]

\* Z/z, Onlab: a line back to first_position.
OnlabClose(p) ==
    IF p.abs_position # p.first_position /\ Len(p.drawing_commands) > 0
    THEN [p EXCEPT !.drawing_commands =
                       Append(@, <<"line", p.first_position[1], p.first_position[2]>>),
                   !.abs_position = p.first_position,
                   !.i = p.i + 1]
    ELSE Skip(p)

\* Index of the first 'move' of a command list, 0 if there is none.
FirstMove(dc) ==
    IF \E j \in 1..Len(dc) : dc[j][1] = "move"
    THEN CHOOSE j \in 1..Len(dc) :
             /\ dc[j][1] = "move"
             /\ \A h \in 1..(j - 1) : dc[h][1] # "move"
    ELSE 0

\* Z/z, svg_code.py: segment_start is the first 'move' of the whole list
\* (element 0 of the list when it holds no 'move').
RootClose(p) ==
    LET dc == p.drawing_commands
        first_move == IF FirstMove(dc) = 0 THEN dc[1] ELSE dc[FirstMove(dc)]
    IN  IF Len(dc) > 0
        THEN [p EXCEPT !.drawing_commands = Append(@, <<"line", first_move[2], first_move[3]>>),
                       !.abs_position = <<first_move[2], first_move[3]>>,
                       !.i = p.i + 1]
        ELSE Skip(p)

\* Z/z, claude_project.py: the first 'move' of trajectory_points, if any;
\* absolute_position is left alone.
ClaudeClose(p) ==
    LET dc == p.drawing_commands
    IN  IF FirstMove(dc) # 0
        THEN [p EXCEPT !.drawing_commands =
                           Append(@, <<"line", dc[FirstMove(dc)][2], dc[FirstMove(dc)][3]>>),
                       !.i = p.i + 1]
        ELSE Skip(p)

(* The curve and arc branches.  Points the flattening computes are exact   *)
(* fractions; the operands and the current point stay integers.            *)

\* Number of leading tokens among tokens[i .. i+n-1] that float() accepts.
RECURSIVE FloatsOk(_, _, _)
FloatsOk(p, k, n) ==
    IF k = n \/ ~IsFloat(p, k) THEN k ELSE FloatsOk(p, k + 1, n)

\* approximate_bezier_curve / the inline loop of svg_code.py: the point at
\* t = k / 10 of the cubic with the points q0..q3 (fractions).
CubicPoint(k, q0, q1, q2, q3) ==
    RatMul(<<1, 1000>>,
           RatAdd(RatAdd(RatMul(FromInt((10 - k) * (10 - k) * (10 - k)), q0),
                         RatMul(FromInt(3 * (10 - k) * (10 - k) * k), q1)),
                  RatAdd(RatMul(FromInt(3 * (10 - k) * k * k), q2),
                         RatMul(FromInt(k * k * k), q3))))

\* The ten 'line' commands of a cubic from (x0, y0) to (x3, y3).
BezierLines(x0, y0, x1, y1, x2, y2, x3, y3) ==
    [k \in 1..10 |-> <<"line", CubicPoint(k, x0, x1, x2, x3),
                               CubicPoint(k, y0, y1, y2, y3)>>]

\* svg_code.py: the point at t = k / 10 of the quadratic with q0, q1, q2.
QuadraticPoint(k, q0, q1, q2) ==
    RatMul(<<1, 100>>,
           RatAdd(RatAdd(RatMul(FromInt((10 - k) * (10 - k)), q0),
                         RatMul(FromInt(2 * (10 - k) * k), q1)),
                  RatMul(FromInt(k * k), q2)))

QuadraticLines(x0, y0, x1, y1, x2, y2) ==
    [k \in 1..10 |-> <<"line", QuadraticPoint(k, x0, x1, x2),
                               QuadraticPoint(k, y0, y1, y2)>>]

\* "a + 2/3 * (b - a)": a control point of the cubic that equals a quadratic.
TwoThirds(a, b) == RatAdd(FromInt(a), RatMul(<<2, 3>>, FromInt(b - a)))

\* The ten 'line' commands of the quadratic from (x0, y0) with control
\* point (x1, y1) to (x, y), drawn as a cubic.
QuadraticAsCubic(x0, y0, x1, y1, x, y) ==
    BezierLines(FromInt(x0), FromInt(y0),
                TwoThirds(x0, x1), TwoThirds(y0, y1),
                TwoThirds(x, x1), TwoThirds(y, y1),
                FromInt(x), FromInt(y))

\* C/c, Onlab.  x1 and y1 are bound as soon as their float() succeeds.
OnlabCubic(p) ==
    LET ok  == FloatsOk(p, 0, 6)
        rel == p.current_cmd = "c"
        ax  == p.abs_position[1]
        ay  == p.abs_position[2]
        dx  == IF rel THEN ax ELSE 0
        dy  == IF rel THEN ay ELSE 0
    IN  IF ok < 6
        THEN [p EXCEPT !.x1 = IF ok >= 1 THEN Some(Tok(p, 0).num) ELSE @,
                       !.y1 = IF ok >= 2 THEN Some(Tok(p, 1).num) ELSE @,
                       !.i = p.i + 1]
        ELSE LET x1 == Tok(p, 0).num + dx
                 y1 == Tok(p, 1).num + dy
                 x2 == Tok(p, 2).num + dx
                 y2 == Tok(p, 3).num + dy
                 x  == Tok(p, 4).num + dx
                 y  == Tok(p, 5).num + dy
             IN  [p EXCEPT !.x1 = Some(x1), !.y1 = Some(y1),
                           !.drawing_commands =
                               @ \o BezierLines(FromInt(ax), FromInt(ay),
                                                FromInt(x1), FromInt(y1),
                                                FromInt(x2), FromInt(y2),
                                                FromInt(x), FromInt(y)),
                           !.abs_position = <<x, y>>,
                           !.i = p.i + 6]

\* S/s, Onlab.  The "reflection" is taken of tokens[i-2] and tokens[i-1],
\* the two tokens before the operands, whatever they are.
OnlabSmoothCubic(p) ==
    LET rel == p.current_cmd = "s"
        ax  == p.abs_position[1]
        ay  == p.abs_position[2]
        xok == p.i < 2 \/ p.tokens[p.i - 1].kind = "num"
        yok == p.i < 2 \/ p.tokens[p.i].kind = "num"
        x1  == ax + (IF p.i >= 2 THEN ax - p.tokens[p.i - 1].num ELSE 0)
        y1  == ay + (IF p.i >= 2 THEN ay - p.tokens[p.i].num ELSE 0)
        ok  == FloatsOk(p, 0, 4)
    IN  IF ~xok THEN Skip(p)
        ELSE IF ~yok THEN [p EXCEPT !.x1 = Some(x1), !.i = p.i + 1]
        ELSE IF ok < 4 THEN [p EXCEPT !.x1 = Some(x1), !.y1 = Some(y1), !.i = p.i + 1]
        ELSE LET x2 == Tok(p, 0).num + (IF rel THEN ax ELSE 0)
                 y2 == Tok(p, 1).num + (IF rel THEN ay ELSE 0)
                 x  == Tok(p, 2).num + (IF rel THEN ax ELSE 0)
                 y  == Tok(p, 3).num + (IF rel THEN ay ELSE 0)
             IN  [p EXCEPT !.x1 = Some(x1), !.y1 = Some(y1),
                           !.drawing_commands =
                               @ \o BezierLines(FromInt(ax), FromInt(ay),
                                                FromInt(x1), FromInt(y1),
                                                FromInt(x2), FromInt(y2),
                                                FromInt(x), FromInt(y)),
                           !.abs_position = <<x, y>>,
                           !.i = p.i + 4]

\* Q/q, Onlab.
OnlabQuadratic(p) ==
    LET ok  == FloatsOk(p, 0, 4)
        rel == p.current_cmd = "q"
        ax  == p.abs_position[1]
        ay  == p.abs_position[2]
    IN  IF ok < 4
        THEN [p EXCEPT !.x1 = IF ok >= 1 THEN Some(Tok(p, 0).num) ELSE @,
                       !.y1 = IF ok >= 2 THEN Some(Tok(p, 1).num) ELSE @,
                       !.i = p.i + 1]
        ELSE LET x1 == Tok(p, 0).num + (IF rel THEN ax ELSE 0)
                 y1 == Tok(p, 1).num + (IF rel THEN ay ELSE 0)
                 x  == Tok(p, 2).num + (IF rel THEN ax ELSE 0)
                 y  == Tok(p, 3).num + (IF rel THEN ay ELSE 0)
             IN  [p EXCEPT !.x1 = Some(x1), !.y1 = Some(y1),
                           !.drawing_commands = @ \o QuadraticAsCubic(ax, ay, x1, y1, x, y),
                           !.abs_position = <<x, y>>,
                           !.i = p.i + 4]

\* T/t, Onlab.  x1 and y1 are reflected before the operands are converted,
\* from whatever value an earlier curve branch left in them.
OnlabSmoothQuadratic(p) ==
    LET rel == p.current_cmd = "t"
        ax  == p.abs_position[1]
        ay  == p.abs_position[2]
        x1  == IF p.x1 # None THEN 2 * ax - Val(p.x1) ELSE ax
        y1  == IF p.y1 # None THEN 2 * ay - Val(p.y1) ELSE ay
    IN  IF FloatsOk(p, 0, 2) < 2
        THEN [p EXCEPT !.x1 = Some(x1), !.y1 = Some(y1), !.i = p.i + 1]
        ELSE LET x == Tok(p, 0).num + (IF rel THEN ax ELSE 0)
                 y == Tok(p, 1).num + (IF rel THEN ay ELSE 0)
             IN  [p EXCEPT !.x1 = Some(x1), !.y1 = Some(y1),
                           !.drawing_commands = @ \o QuadraticAsCubic(ax, ay, x1, y1, x, y),
                           !.abs_position = <<x, y>>,
                           !.i = p.i + 2]

\* A point approximate_arc samples on the ellipse; its value comes from
\* math.cos, math.sin, math.sqrt, math.atan2 and math.acos and is left
\* uninterpreted: the arguments of the call and the number of the sample.
ArcSample(axis, args, k) == <<axis, args, k>>

\* approximate_arc: the commands it appends.
approximate_arc(x0, y0, rx, ry, angle, large_arc, sweep, x, y) ==
    IF x0 = x /\ y0 = y THEN <<>>
    ELSE IF Abs(rx) = 0 \/ Abs(ry) = 0 THEN <<<<"line", x, y>>>>
    ELSE LET args == <<x0, y0, Abs(rx), Abs(ry), angle, large_arc, sweep, x, y>>
         IN  [k \in 1..20 |-> <<"line", ArcSample("px", args, k),
                                        ArcSample("py", args, k)>>]

\* A/a, Onlab.
OnlabArc(p) ==
    IF FloatsOk(p, 0, 7) < 7 THEN Skip(p)
    ELSE LET rel == p.current_cmd = "a"
             x   == Tok(p, 5).num + (IF rel THEN p.abs_position[1] ELSE 0)
             y   == Tok(p, 6).num + (IF rel THEN p.abs_position[2] ELSE 0)
         IN  [p EXCEPT !.drawing_commands =
                           @ \o approximate_arc(p.abs_position[1], p.abs_position[2],
                                                Tok(p, 0).num, Tok(p, 1).num,
                                                Tok(p, 2).num, Tok(p, 3).num,
                                                Tok(p, 4).num, x, y),
                       !.abs_position = <<x, y>>,
                       !.i = p.i + 7]

\* C/c and S/s, svg_code.py: both read two control points and the end point.
RootCubic(p) ==
    IF FloatsOk(p, 0, 6) < 6 THEN Skip(p)
    ELSE LET rel == p.current_cmd \in {"c", "s"}
             ax  == p.abs_position[1]
             ay  == p.abs_position[2]
             dx  == IF rel THEN ax ELSE 0
             dy  == IF rel THEN ay ELSE 0
         IN  [p EXCEPT !.drawing_commands =
                           @ \o BezierLines(FromInt(ax), FromInt(ay),
                                            FromInt(Tok(p, 0).num + dx),
                                            FromInt(Tok(p, 1).num + dy),
                                            FromInt(Tok(p, 2).num + dx),
                                            FromInt(Tok(p, 3).num + dy),
                                            FromInt(Tok(p, 4).num + dx),
                                            FromInt(Tok(p, 5).num + dy)),
                       !.abs_position = <<Tok(p, 4).num + dx, Tok(p, 5).num + dy>>,
                       !.i = p.i + 6]

\* Q/q and T/t, svg_code.py: both read the control point and the end point.
RootQuadratic(p) ==
    IF FloatsOk(p, 0, 4) < 4 THEN Skip(p)
    ELSE LET rel == p.current_cmd \in {"q", "t"}
             ax  == p.abs_position[1]
             ay  == p.abs_position[2]
             dx  == IF rel THEN ax ELSE 0
             dy  == IF rel THEN ay ELSE 0
         IN  [p EXCEPT !.drawing_commands =
                           @ \o QuadraticLines(FromInt(ax), FromInt(ay),
                                               FromInt(Tok(p, 0).num + dx),
                                               FromInt(Tok(p, 1).num + dy),
                                               FromInt(Tok(p, 2).num + dx),
                                               FromInt(Tok(p, 3).num + dy)),
                       !.abs_position = <<Tok(p, 2).num + dx, Tok(p, 3).num + dy>>,
                       !.i = p.i + 4]

\* A/a, svg_code.py: one line to the end point.
RootArc(p) ==
    IF FloatsOk(p, 0, 7) < 7 THEN Skip(p)
    ELSE LET rel == p.current_cmd = "a"
             x   == Tok(p, 5).num + (IF rel THEN p.abs_position[1] ELSE 0)
             y   == Tok(p, 6).num + (IF rel THEN p.abs_position[2] ELSE 0)
         IN  [p EXCEPT !.drawing_commands = Append(@, <<"line", x, y>>),
                       !.abs_position = <<x, y>>,
                       !.i = p.i + 7]

\* The elif the iteration takes once the M, L, H, V and Z tests have failed.
\* claude_project.py has no such branch: its documents hold no curve letter.
CurveBranchOf(conv, p) ==
    LET c    == p.current_cmd
        left == Len(p.tokens) - p.i
    IN  IF conv = "Onlab"
        THEN (IF c \in {"C", "c"} /\ left > 5 THEN "cubic"
              ELSE IF c \in {"S", "s"} /\ left > 3 THEN "smooth_cubic"
              ELSE IF c \in {"Q", "q"} /\ left > 3 THEN "quadratic"
              ELSE IF c \in {"T", "t"} /\ left > 1 THEN "smooth_quadratic"
              ELSE IF c \in {"A", "a"} /\ left > 6 THEN "arc"
              ELSE "else")
        ELSE IF conv = "root"
        THEN (IF c \in {"C", "c", "S", "s"} /\ left > 5 THEN "cubic"
              ELSE IF c \in {"Q", "q", "T", "t"} /\ left > 3 THEN "quadratic"
              ELSE IF c \in {"A", "a"} /\ left > 6 THEN "arc"
              ELSE "else")
        ELSE "else"

CurveStep(conv, p) ==
    CASE CurveBranchOf(conv, p) = "cubic" ->
             IF conv = "Onlab" THEN OnlabCubic(p) ELSE RootCubic(p)
      [] CurveBranchOf(conv, p) = "smooth_cubic" -> OnlabSmoothCubic(p)
      [] CurveBranchOf(conv, p) = "quadratic" ->
             IF conv = "Onlab" THEN OnlabQuadratic(p) ELSE RootQuadratic(p)
      [] CurveBranchOf(conv, p) = "smooth_quadratic" -> OnlabSmoothQuadratic(p)
      [] CurveBranchOf(conv, p) = "arc" ->
             IF conv = "Onlab" THEN OnlabArc(p) ELSE RootArc(p)
      [] OTHER -> Skip(p)

\* The branch of the while loop the next iteration takes.  With no command
\* letter read yet, "current_cmd in 'Mm'" is evaluated with current_cmd
\* None and raises TypeError.
BranchOf(p) ==
    IF Tok(p, 0).kind = "cmd" THEN "letter"
    ELSE IF p.current_cmd = "None" THEN "raise"
    ELSE IF p.current_cmd \in {"M", "m"} THEN "move"
    ELSE IF p.current_cmd \in {"L", "l"} THEN "line"
    ELSE IF p.current_cmd \in {"H", "h"} THEN "horizontal"
    ELSE IF p.current_cmd \in {"V", "v"} THEN "vertical"
    ELSE IF p.current_cmd \in {"Z", "z"} THEN "close"
    ELSE "skip"

\* One iteration of the while loop that does not raise.
ParseStep(conv, p) ==
    CASE BranchOf(p) = "letter"     -> ReadLetter(p)
      [] BranchOf(p) = "move"       -> IF conv = "Onlab" THEN OnlabMoveTo(p) ELSE RootMoveTo(p)
      [] BranchOf(p) = "line"       -> LineTo(p)
      [] BranchOf(p) = "horizontal" -> Horizontal(p)
      [] BranchOf(p) = "vertical"   -> Vertical(p)
      [] BranchOf(p) = "close"      -> IF conv = "Onlab" THEN OnlabClose(p)
                                       ELSE IF conv = "root" THEN RootClose(p)
                                       ELSE ClaudeClose(p)
      [] OTHER                      -> CurveStep(conv, p)

InLoop == pc = "parse" /\ parser.i < Len(parser.tokens)

\* One iteration of the while loop, the path and the document unchanged.
Iterate ==
    /\ parser' = ParseStep(converter, parser)
    /\ UNCHANGED <<robotVars, process, circles, stage, pc, converter, robot_config, genVars, paths, path_index,
                   drawing_commands, mapVars, docVars, replayVars>>

ParseLetter ==
    /\ InLoop /\ BranchOf(parser) = "letter"
    /\ Iterate

ParseMoveTo ==
    /\ InLoop /\ BranchOf(parser) = "move"
    /\ Iterate

ParseLineTo ==
    /\ InLoop /\ BranchOf(parser) = "line"
    /\ Iterate

ParseHorizontal ==
    /\ InLoop /\ BranchOf(parser) = "horizontal"
    /\ Iterate

ParseVertical ==
    /\ InLoop /\ BranchOf(parser) = "vertical"
    /\ Iterate

ParseClose ==
    /\ InLoop /\ BranchOf(parser) = "close"
    /\ Iterate

\* The list the document has once the current path is left: Onlab extends
\* the document's list by the path's own list, the other two interpreters
\* append to the one shared list.
AfterPath ==
    IF converter = "Onlab" THEN drawing_commands \o parser.drawing_commands
    ELSE parser.drawing_commands

\* Leave the current path and start on the next, or return.
LeavePath ==
    /\ drawing_commands' = AfterPath
    /\ path_index' = path_index + 1
    /\ IF path_index + 1 < Len(paths)
       THEN /\ parser' = NewParser(paths[path_index + 2],
                                   IF converter = "Onlab" THEN <<>> ELSE AfterPath)
            /\ pc' = pc
       ELSE /\ parser' = parser
            /\ pc' = "parsed"
    /\ UNCHANGED <<robotVars, process, circles, stage, converter, robot_config, genVars, paths, mapVars, docVars,
                   replayVars>>

\* The while loop ends: all tokens of the path are consumed.
ParseEndPath ==
    /\ pc = "parse"
    /\ parser.i >= Len(parser.tokens)
    /\ LeavePath

\* TypeError in the loop, svg_code.py: caught by the try around one path,
\* the commands emitted so far stay and the next path is interpreted.
ParseRaiseCaughtPerPath ==
    /\ InLoop
    /\ BranchOf(parser) = "raise"
    /\ converter = "root"
    /\ LeavePath

\* TypeError in the loop, Onlab and claude_project.py: caught by the
\* "except Exception" around the whole document, which returns [].
ParseRaiseAbortsDocument ==
    /\ InLoop
    /\ BranchOf(parser) = "raise"
    /\ converter \in {"Onlab", "claude"}
    /\ drawing_commands' = <<>>
    /\ pc' = "raised"
    /\ UNCHANGED <<robotVars, process, circles, stage, converter, robot_config, genVars, paths, path_index, parser,
                   mapVars, docVars, replayVars>>

(* The documents: up to MaxChunks chunks of path data, cut into path       *)
(* elements where a chunk is the separator.                                *)
MaxChunks == 3

PathSeparator == <<[kind |-> "sep", letter |-> "", num |-> 0]>>

Chunks ==
    { <<Cmd("M"), Num(0), Num(0), Cmd("L"), Num(4), Num(0)>>,
      <<Cmd("M"), Num(4), Num(3), Cmd("L"), Num(0), Num(3), Cmd("Z")>>,
      <<Cmd("M"), Num(4), Num(3), Cmd("L"), Num(0), Num(3), Cmd("Z"), Num(5)>>,
      <<Cmd("m"), Num(1), Num(1), Cmd("l"), Num(2), Num(0), Cmd("z")>>,
      <<Cmd("H"), Num(2), Cmd("V"), Num(5), Cmd("z"), Junk>>,
      <<Cmd("L"), Num(4), Num(3), Num(1)>>,
      <<Num(7)>> }

\* The path elements (non-empty token lists) of a chunk sequence.
RECURSIVE SplitPaths(_, _)
SplitPaths(chunks, cur) ==
    IF chunks = <<>> THEN (IF cur = <<>> THEN <<>> ELSE <<cur>>)
    ELSE IF Head(chunks) = PathSeparator
         THEN (IF cur = <<>> THEN <<>> ELSE <<cur>>) \o SplitPaths(Tail(chunks), <<>>)
         ELSE SplitPaths(Tail(chunks), cur \o Head(chunks))

Documents ==
    {SplitPaths(d, <<>>) : d \in SeqsUpTo(Chunks \cup {PathSeparator}, MaxChunks)} \ {<<>>}

ParseInit ==
    /\ RobotIdle
    /\ ProcessIdle
    /\ CircleIdle
    /\ StageIdle
    /\ pc = "parse"
    /\ converter \in {"Onlab", "root", "claude"}
    /\ robot_config = RobotConfigDefaults
    /\ GenIdle
    /\ paths \in Documents
    /\ path_index = 0
    /\ parser = NewParser(paths[1], <<>>)
    /\ drawing_commands = <<>>
    /\ MapIdle
    /\ DocIdle
    /\ ReplayIdle

ParseNext ==
    \/ ParseLetter
    \/ ParseMoveTo
    \/ ParseLineTo
    \/ ParseHorizontal
    \/ ParseVertical
    \/ ParseClose
    \/ ParseEndPath
    \/ ParseRaiseCaughtPerPath
    \/ ParseRaiseAbortsDocument

SpecParse == ParseInit /\ [][ParseNext]_vars

-----------------------------------------------------------------------------
(* Properties of the path command interpreters.                            *)

\* The commands the interpreter has emitted for the path it is in.
ThisPathCommands ==
    IF converter = "Onlab" THEN parser.drawing_commands
    ELSE SubSeq(parser.drawing_commands, Len(drawing_commands) + 1,
                Len(parser.drawing_commands))

HasMove(cmds) == \E k \in 1..Len(cmds) : cmds[k][1] = "move"

\* The Move that opened the subpath the interpreter is in: the last one emitted.
SubpathMove(cmds) ==
    cmds[CHOOSE k \in 1..Len(cmds) :
             /\ cmds[k][1] = "move"
             /\ \A h \in (k + 1)..Len(cmds) : cmds[h][1] # "move"]

\* The interpreter has just left a subpath that ends with a close command:
\* the token it consumed last is Z or z, and that token is the last of the
\* path or is directly followed by a command letter.
SubpathClosed ==
    /\ pc = "parse"
    /\ parser.i >= 1
    /\ parser.tokens[parser.i].kind = "cmd"
    /\ parser.tokens[parser.i].letter \in {"Z", "z"}
    /\ \/ parser.i = Len(parser.tokens)
       \/ parser.tokens[parser.i + 1].kind = "cmd"

\* C2: when a subpath opened by a Move ends with an explicit close command
\* (Z or z as the last token, or directly followed by a command letter), the
\* last command emitted for it is at exactly the subpath's Move point.
C2_ClosedSubpathEndsAtItsStart ==
    (SubpathClosed /\ HasMove(ThisPathCommands)) =>
        LET cmds == ThisPathCommands
        IN  <<Last(cmds)[2], Last(cmds)[3]>>
                = <<SubpathMove(cmds)[2], SubpathMove(cmds)[3]>>

\* C4: whenever an iteration of the close branch emits a Line in a subpath
\* opened by a Move, the Line targets that Move's point, not the Move point
\* of an earlier subpath or of an earlier path element.
C4_CloseTargetsItsOwnSubpath ==
    [][ ( /\ InLoop
          /\ BranchOf(parser) = "close"
          /\ parser'.tokens = parser.tokens
          /\ parser'.i = parser.i + 1
          /\ Len(parser'.drawing_commands) = Len(parser.drawing_commands) + 1
          /\ HasMove(ThisPathCommands) )
        => Last(parser'.drawing_commands)
               = <<"line", SubpathMove(ThisPathCommands)[2],
                           SubpathMove(ThisPathCommands)[3]>> ]_vars

\* The iteration that reads a Z or z which no operand follows (it is the last
\* token or a command letter comes next): the close branch will not run for it.
ReadsBareClose ==
    /\ InLoop
    /\ BranchOf(parser) = "letter"
    /\ Tok(parser, 0).letter \in {"Z", "z"}
    /\ \/ parser.i + 1 = Len(parser.tokens)
       \/ Tok(parser, 1).kind = "cmd"

\* C11: a Z/z command consumes no operand token, emits exactly one Line to
\* the subpath's start point when the current point differs from it and no
\* command when they are equal, and leaves the current point at the subpath's
\* start point.
C11_CloseEmitsLineAndResetsPosition ==
    [][ (ReadsBareClose /\ HasMove(ThisPathCommands) /\ parser'.tokens = parser.tokens)
        => LET m     == SubpathMove(ThisPathCommands)
               start == <<m[2], m[3]>>
           IN  /\ parser'.i = parser.i + 1
               /\ parser'.abs_position = start
               /\ parser'.drawing_commands
                     = parser.drawing_commands
                       \o (IF parser.abs_position = start THEN <<>>
                           ELSE <<<<"line", start[1], start[2]>>>>) ]_vars

-----------------------------------------------------------------------------
(* Workspace mappers: Onlab/svg_code.py scale_to_robot_coordinates and     *)
(* svg_code.py scale_to_a4.  The code computes in floats; the model        *)
(* computes the same expressions exactly, a number being the fraction      *)
(* <<num, den>> with den > 0 in lowest terms.                              *)

\* A4 paper: Onlab/svg_code.py works in mm, svg_code.py in metres.
A4_WIDTH == 210
A4_HEIGHT == 297
Root_A4_WIDTH == <<210, 1000>>
Root_A4_HEIGHT == <<297, 1000>>
DRAWING_SCALE == <<35, 100>>
DRAWING_OFFSET_X == 0
DRAWING_OFFSET_Y == 0
Root_CENTER_X == 0
Root_CENTER_Y == 0
\* "(A4_WIDTH * 0.9)": svg_code.py uses 90 % of the sheet.
Root_MARGIN == <<9, 10>>

SetMin(S) == CHOOSE m \in S : \A e \in S : m <= e
SetMax(S) == CHOOSE m \in S : \A e \in S : m >= e

\* "Find the bounding box of the drawing"
BoundingBox(cmds) ==
    LET xs == {cmds[k][2] : k \in 1..Len(cmds)}
        ys == {cmds[k][3] : k \in 1..Len(cmds)}
    IN  [min_x |-> SetMin(xs), max_x |-> SetMax(xs),
         min_y |-> SetMin(ys), max_y |-> SetMax(ys)]

\* A mapper that scales by the larger of the two ratios.
PreservingScale_Larger(svg_width, svg_height, sf) ==
    RatMul(RatMax(Rat(A4_WIDTH, svg_width), Rat(A4_HEIGHT, svg_height)), sf)

\* A mapper that does not fit the drawing to the sheet.
PreservingScale_Unfitted(svg_width, svg_height, sf) == sf

\* Aspect-preserving scale of the Onlab mapper (width and height non-zero).
PreservingScale(svg_width, svg_height, sf) ==
    RatMul(RatMin(Rat(A4_WIDTH, svg_width), Rat(A4_HEIGHT, svg_height)), sf)

\* Onlab/svg_code.py scale_to_robot_coordinates.  A zero svg_width or
\* svg_height makes "A4_WIDTH / svg_width" or "A4_HEIGHT / svg_height"
\* raise ZeroDivisionError, which nothing in the function catches.
scale_to_robot_coordinates(cmds, cfg, preserve, sf) ==
    IF cmds = <<>> THEN [raised |-> "None", commands |-> <<>>]
    ELSE
    LET bb         == BoundingBox(cmds)
        svg_width  == bb.max_x - bb.min_x
        svg_height == bb.max_y - bb.min_y
        svg_center_x == RatAdd(FromInt(bb.min_x), RatHalf(FromInt(svg_width)))
        svg_center_y == RatAdd(FromInt(bb.min_y), RatHalf(FromInt(svg_height)))
    IN  IF svg_width = 0 \/ svg_height = 0
        THEN [raised |-> "ZeroDivisionError", commands |-> <<>>]
        ELSE
        LET scale_x == IF preserve THEN PreservingScale(svg_width, svg_height, sf)
                       ELSE RatMul(Rat(A4_WIDTH, svg_width), sf)
            scale_y == IF preserve THEN PreservingScale(svg_width, svg_height, sf)
                       ELSE RatMul(Rat(A4_HEIGHT, svg_height), sf)
            robot_x(c) == RatAdd(RatAdd(FromInt(cfg.center_x),
                                        RatMul(RatSub(FromInt(c[2]), svg_center_x), scale_x)),
                                 FromInt(DRAWING_OFFSET_X))
            robot_y(c) == RatAdd(RatAdd(FromInt(cfg.center_y),
                                        RatMul(RatSub(FromInt(c[3]), svg_center_y), scale_y)),
                                 FromInt(DRAWING_OFFSET_Y))
        IN  [raised |-> "None",
             commands |-> [k \in 1..Len(cmds) |->
                              <<cmds[k][1], robot_x(cmds[k]), robot_y(cmds[k])>>]]

\* The scale svg_code.py uses on one axis: 1 when the extent is not positive.
RootAxisScale(target, extent) ==
    IF extent > 0 THEN RatMul(RatMul(target, Root_MARGIN), Rat(1, extent))
    ELSE FromInt(1)

\* svg_code.py scale_to_a4.
scale_to_a4(cmds) ==
    IF cmds = <<>> THEN [raised |-> "None", commands |-> <<>>]
    ELSE
    LET bb         == BoundingBox(cmds)
        svg_width  == bb.max_x - bb.min_x
        svg_height == bb.max_y - bb.min_y
        scale      == RatMin(RootAxisScale(Root_A4_WIDTH, svg_width),
                             RootAxisScale(Root_A4_HEIGHT, svg_height))
        x_norm(c)  == RatSub(FromInt(c[2]),
                             RatAdd(FromInt(bb.min_x), RatHalf(FromInt(svg_width))))
        y_norm(c)  == RatSub(FromInt(c[3]),
                             RatAdd(FromInt(bb.min_y), RatHalf(FromInt(svg_height))))
    IN  [raised |-> "None",
         commands |-> [k \in 1..Len(cmds) |->
                          <<cmds[k][1],
                            RatAdd(FromInt(Root_CENTER_X), RatMul(x_norm(cmds[k]), scale)),
                            RatAdd(FromInt(Root_CENTER_Y), RatMul(y_norm(cmds[k]), scale))>>]]

MapOnlab ==
    /\ pc = "map" /\ converter = "Onlab"
    /\ map_result' = scale_to_robot_coordinates(map_commands, robot_config,
                                                preserve_aspect_ratio, scale_factor)
    /\ pc' = "mapped"
    /\ UNCHANGED <<robotVars, process, circles, stage, converter, robot_config, genVars, parseVars, map_commands,
                   preserve_aspect_ratio, scale_factor, docVars, replayVars>>

MapRoot ==
    /\ pc = "map" /\ converter = "root"
    /\ map_result' = scale_to_a4(map_commands)
    /\ pc' = "mapped"
    /\ UNCHANGED <<robotVars, process, circles, stage, converter, robot_config, genVars, parseVars, map_commands,
                   preserve_aspect_ratio, scale_factor, docVars, replayVars>>

MaxMapCmds == 3

MapPoints == {<<x, y>> : x \in {0, 1, 5}, y \in {-2, 0}}

MapCommands == {<<t, q[1], q[2]>> : t \in {"move", "line"}, q \in MapPoints}

MapInit ==
    /\ RobotIdle
    /\ ProcessIdle
    /\ CircleIdle
    /\ StageIdle
    /\ pc = "map"
    /\ converter \in {"Onlab", "root"}
    /\ robot_config \in {c \in RobotConfigs : c.z_surface = RobotConfigDefaults.z_surface}
    /\ GenIdle
    /\ ParseIdle
    /\ map_commands \in SeqsUpTo(MapCommands, MaxMapCmds)
    /\ IF converter = "Onlab"
       THEN /\ preserve_aspect_ratio \in BOOLEAN
            /\ scale_factor \in {DRAWING_SCALE, <<1, 1>>}
       ELSE /\ preserve_aspect_ratio = TRUE
            /\ scale_factor = Root_MARGIN
    /\ map_result = <<>>
    /\ DocIdle
    /\ ReplayIdle

MapNext ==
    \/ MapOnlab
    \/ MapRoot

SpecMap == MapInit /\ [][MapNext]_vars

-----------------------------------------------------------------------------
(* Properties of the workspace mappers.                                    *)

MapCenter ==
    IF converter = "Onlab"
    THEN <<FromInt(robot_config.center_x), FromInt(robot_config.center_y)>>
    ELSE <<FromInt(Root_CENTER_X), FromInt(Root_CENTER_Y)>>

MapTarget ==
    IF converter = "Onlab" THEN <<FromInt(A4_WIDTH), FromInt(A4_HEIGHT)>>
    ELSE <<Root_A4_WIDTH, Root_A4_HEIGHT>>

InputWidth == BoundingBox(map_commands).max_x - BoundingBox(map_commands).min_x
InputHeight == BoundingBox(map_commands).max_y - BoundingBox(map_commands).min_y

RatSeqMin(S) == CHOOSE m \in S : \A e \in S : RatLeq(m, e)
RatSeqMax(S) == CHOOSE m \in S : \A e \in S : RatLeq(e, m)

\* C5: for a non-empty command list of non-zero width and height (the margin
\* factor being at most 1) the mapped bounding box is centred exactly at the
\* configured centre and every mapped point lies within the A4 sheet
\* rectangle centred there.
C5_MappedDrawingCentredAndInside ==
    (pc = "mapped" /\ map_commands # <<>> /\ InputWidth # 0 /\ InputHeight # 0) =>
        LET out == map_result.commands
            xs  == {out[k][2] : k \in 1..Len(out)}
            ys  == {out[k][3] : k \in 1..Len(out)}
        IN  /\ map_result.raised = "None"
            /\ Len(out) = Len(map_commands)
            /\ RatHalf(RatAdd(RatSeqMin(xs), RatSeqMax(xs))) = MapCenter[1]
            /\ RatHalf(RatAdd(RatSeqMin(ys), RatSeqMax(ys))) = MapCenter[2]
            /\ \A k \in 1..Len(out) :
                  /\ out[k][1] = map_commands[k][1]
                  /\ RatLeq(RatAbs(RatSub(out[k][2], MapCenter[1])),
                            RatHalf(MapTarget[1]))
                  /\ RatLeq(RatAbs(RatSub(out[k][3], MapCenter[2])),
                            RatHalf(MapTarget[2]))

\* A mapped drawing that fills the whole width of the sheet, away from the origin.
C5_Witness ==
    /\ pc = "mapped" /\ converter = "Onlab" /\ preserve_aspect_ratio
    /\ Len(map_commands) = 3
    /\ InputWidth # 0 /\ InputHeight # 0
    /\ robot_config.center_x # 0
    /\ \E k \in 1..Len(map_result.commands) :
          RatSub(map_result.commands[k][2], MapCenter[1]) = RatHalf(FromInt(A4_WIDTH))

\* C6: when the source bounding box has zero width or zero height the mapper
\* raises nothing and returns the mapped commands, one per input command.
C6_DegenerateExtentIsMapped ==
    (pc = "mapped" /\ map_commands # <<>> /\ (InputWidth = 0 \/ InputHeight = 0)) =>
        /\ map_result.raised = "None"
        /\ Len(map_result.commands) = Len(map_commands)

-----------------------------------------------------------------------------
(* Onlab/svg_code.py parse_svg_path over a whole document: the <path>      *)
(* elements first, then the <rect> elements, then the <line> elements, all *)
(* inside one try block.  The documents here hold no circle, polyline or   *)
(* polygon element, so those loops of the function do nothing.  An         *)
(* attribute is a token: Num(n) is the text of a number, Junk a text       *)
(* float() rejects.                                                        *)

\* float(text) succeeds
Numeric(a) == a.kind = "num"

RectOk(r) == Numeric(r.x) /\ Numeric(r.y) /\ Numeric(r.width) /\ Numeric(r.height)

\* rect_cmds of a <rect> whose attributes are all numbers
RectCommands(r) ==
    << <<"move", r.x.num, r.y.num>>,
       <<"line", r.x.num + r.width.num, r.y.num>>,
       <<"line", r.x.num + r.width.num, r.y.num + r.height.num>>,
       <<"line", r.x.num, r.y.num + r.height.num>>,
       <<"line", r.x.num, r.y.num>> >>

LineOk(l) == Numeric(l.x1) /\ Numeric(l.y1) /\ Numeric(l.x2) /\ Numeric(l.y2)

\* line_cmds of a <line> whose attributes are all numbers
LineCommands(l) ==
    << <<"move", l.x1.num, l.y1.num>>, <<"line", l.x2.num, l.y2.num>> >>

\* The "except Exception" of parse_svg_path: log and return [].
AbortDocument ==
    /\ drawing_commands' = <<>>
    /\ pc' = "raised"
    /\ UNCHANGED <<robotVars, process, circles, stage, converter, robot_config, genVars, paths, path_index, parser,
                   mapVars, docVars, replayVars>>

\* One <rect>: four float() conversions, then five commands.
ParseRect ==
    /\ pc = "parsed" /\ converter = "Onlab"
    /\ shape_index < Len(rects)
    /\ RectOk(rects[shape_index + 1])
    /\ drawing_commands' = drawing_commands \o RectCommands(rects[shape_index + 1])
    /\ shape_index' = shape_index + 1
    /\ UNCHANGED <<robotVars, process, circles, stage, pc, converter, robot_config, genVars, paths, path_index, parser,
                   mapVars, rects, lines, replayVars>>

\* float() raises ValueError on an attribute of a <rect>.
ParseRectRaises ==
    /\ pc = "parsed" /\ converter = "Onlab"
    /\ shape_index < Len(rects)
    /\ ~RectOk(rects[shape_index + 1])
    /\ AbortDocument

\* The <rect> loop ends, the <line> loop starts.
ParseRectsDone ==
    /\ pc = "parsed" /\ converter = "Onlab"
    /\ shape_index = Len(rects)
    /\ pc' = "lines"
    /\ shape_index' = 0
    /\ UNCHANGED <<robotVars, process, circles, stage, converter, robot_config, genVars, parseVars, mapVars, rects,
                   lines, replayVars>>

\* One <line>: four float() conversions, then two commands.
ParseLine ==
    /\ pc = "lines"
    /\ shape_index < Len(lines)
    /\ LineOk(lines[shape_index + 1])
    /\ drawing_commands' = drawing_commands \o LineCommands(lines[shape_index + 1])
    /\ shape_index' = shape_index + 1
    /\ UNCHANGED <<robotVars, process, circles, stage, pc, converter, robot_config, genVars, paths, path_index, parser,
                   mapVars, rects, lines, replayVars>>

\* float() raises ValueError on an attribute of a <line>.
ParseLineRaises ==
    /\ pc = "lines"
    /\ shape_index < Len(lines)
    /\ ~LineOk(lines[shape_index + 1])
    /\ AbortDocument

\* "return drawing_commands"
ParseReturn ==
    /\ pc = "lines"
    /\ shape_index = Len(lines)
    /\ pc' = "returned"
    /\ UNCHANGED <<robotVars, process, circles, stage, converter, robot_config, genVars, parseVars, mapVars,
                   docVars, replayVars>>

MaxDocChunks == 1
MaxShapes == 2

DocPaths ==
    {SplitPaths(d, <<>>) : d \in SeqsUpTo(Chunks \cup {PathSeparator}, MaxDocChunks)}

RectElements ==
    { [x |-> Num(1), y |-> Num(1), width |-> Num(2), height |-> Num(3)],
      [x |-> Num(0), y |-> Num(0), width |-> Junk, height |-> Num(3)] }

LineElements ==
    { [x1 |-> Num(0), y1 |-> Num(0), x2 |-> Num(4), y2 |-> Num(3)],
      [x1 |-> Num(0), y1 |-> Junk, x2 |-> Num(4), y2 |-> Num(3)] }

DocInit ==
    /\ RobotIdle
    /\ ProcessIdle
    /\ CircleIdle
    /\ StageIdle
    /\ converter = "Onlab"
    /\ robot_config = RobotConfigDefaults
    /\ GenIdle
    /\ MapIdle
    /\ paths \in DocPaths
    /\ path_index = 0
    /\ IF paths = <<>>
       THEN pc = "parsed" /\ parser = NewParser(<<>>, <<>>)
       ELSE pc = "parse" /\ parser = NewParser(paths[1], <<>>)
    /\ drawing_commands = <<>>
    /\ rects \in SeqsUpTo(RectElements, MaxShapes)
    /\ lines \in SeqsUpTo(LineElements, MaxShapes)
    /\ shape_index = 0
    /\ ReplayIdle

DocNext ==
    \/ ParseLetter
    \/ ParseMoveTo
    \/ ParseLineTo
    \/ ParseHorizontal
    \/ ParseVertical
    \/ ParseClose
    \/ ParseEndPath
    \/ ParseRaiseAbortsDocument
    \/ ParseRect
    \/ ParseRectRaises
    \/ ParseRectsDone
    \/ ParseLine
    \/ ParseLineRaises
    \/ ParseReturn

SpecDoc == DocInit /\ [][DocNext]_vars

-----------------------------------------------------------------------------
(* Properties of parse_svg_path over a document.                           *)

\* "a path whose data starts with a number"
PathMalformed(tokens) == tokens[1].kind # "cmd"

\* The commands parse_path_data returns for path data that raises nothing.
RECURSIVE PathCommands(_)
PathCommands(p) ==
    IF p.i >= Len(p.tokens) THEN p.drawing_commands
    ELSE PathCommands(ParseStep("Onlab", p))

MalformedCount ==
    Cardinality({k \in 1..Len(paths) : PathMalformed(paths[k])})
    + Cardinality({k \in 1..Len(rects) : ~RectOk(rects[k])})
    + Cardinality({k \in 1..Len(lines) : ~LineOk(lines[k])})

\* The commands of the well-formed elements, in the order of the element loops.
WellFormedCommands ==
    Flatten([k \in 1..Len(paths) |->
                IF PathMalformed(paths[k]) THEN <<>>
                ELSE PathCommands(NewParser(paths[k], <<>>))])
    \o Flatten([k \in 1..Len(rects) |->
                IF RectOk(rects[k]) THEN RectCommands(rects[k]) ELSE <<>>])
    \o Flatten([k \in 1..Len(lines) |->
                IF LineOk(lines[k]) THEN LineCommands(lines[k]) ELSE <<>>])

\* C7: when exactly one element of the document is malformed, parse_svg_path
\* ends with the commands of the other elements; the error of the one element
\* does not empty the result of the whole document.
C7_OtherElementsSurvive ==
    (pc \in {"returned", "raised"} /\ MalformedCount = 1) =>
        drawing_commands = WellFormedCommands

-----------------------------------------------------------------------------
(* Replay: Onlab/svg_code.py save_trajectory writes the generated          *)
(* trajectory to a JSON file, Onlab/drawing_app.py main option 2 loads it  *)
(* and sends it to the robot.  The generator's numbers are whole mm and    *)
(* whole hundredths of a radian; the file and the robot get decimal        *)
(* numbers, modelled as fractions.  The socket is taken to be connected,   *)
(* so send_script succeeds.                                                *)

\* The decimal value of the k-th entry v of a pose.
PoseValue(k, v) == IF k <= 3 THEN FromInt(v) ELSE Rat(v, 100)

\* float(f"{p:.2f}"): the value with two decimal places.
Format2(k, v) == IF k <= 3 THEN Rat(v * 100, 100) ELSE Rat(v, 100)

\* formatted_pose
FormattedPose(pose) == [k \in 1..Len(pose) |-> Format2(k, pose[k])]

\* save_trajectory: the tag is dropped, each pose is wrapped in a list.
SaveTrajectory ==
    /\ pc = "done" /\ converter = "Onlab"
    /\ trajectory # <<>>
    /\ file' = [k \in 1..Len(trajectory) |-> <<FormattedPose(trajectory[k][2])>>]
    /\ pc' = "saved"
    /\ UNCHANGED <<robotVars, process, circles, stage, converter, robot_config, genVars, parseVars, mapVars, docVars,
                   HOME_POSITION, DRAWING_HEIGHT, coordinates, replay_i, sent>>

\* mm_to_m raises TypeError when one of the first three entries is None.
MmToMRaises(position_mm) == \E k \in 1..3 : position_mm[k] = None

\* mm_to_m: the first three entries divided by 1000.
mm_to_m(position_mm) ==
    [k \in 1..Len(position_mm) |->
        IF k <= 3 THEN RatMul(position_mm[k], <<1, 1000>>) ELSE position_mm[k]]

\* move_to_position: what the robot is sent; nothing when mm_to_m raises,
\* the exception being caught and False returned.
MoveToPosition(what, i, position_mm) ==
    IF MmToMRaises(position_mm) THEN <<>>
    ELSE <<[what |-> what, i |-> i, target |-> mm_to_m(position_mm)]>>

HomePose == [k \in 1..Len(HOME_POSITION) |-> PoseValue(k, HOME_POSITION[k])]

DrawingHeight == IF DRAWING_HEIGHT = None THEN None ELSE FromInt(Val(DRAWING_HEIGHT))

\* DRAWING_POS = HOME_POSITION.copy(); DRAWING_POS[2] = DRAWING_HEIGHT
DRAWING_POS == [HomePose EXCEPT ![3] = DrawingHeight]

\* Option 2 up to the replay loop: load the file, go home, go to drawing height.
ReplayBegin ==
    /\ pc = "saved"
    /\ coordinates' = [k \in 1..Len(file) |-> file[k][1]]
    /\ sent' = sent \o MoveToPosition("home", 0, HomePose)
                    \o MoveToPosition("drawing_pos", 0, DRAWING_POS)
    /\ replay_i' = 0
    /\ pc' = "replay"
    /\ UNCHANGED <<robotVars, process, circles, stage, converter, robot_config, genVars, parseVars, mapVars, docVars,
                   file, HOME_POSITION, DRAWING_HEIGHT>>

\* trajectory[i] as the loop sends it: every step but the first and the last
\* gets Z = DRAWING_HEIGHT.
ReplayPose(i) ==
    IF i # 0 /\ i # Len(coordinates) - 1
    THEN [coordinates[i + 1] EXCEPT ![3] = DrawingHeight]
    ELSE coordinates[i + 1]

\* One iteration of the replay loop.
ReplayStep ==
    /\ pc = "replay"
    /\ replay_i < Len(coordinates)
    /\ coordinates' = [coordinates EXCEPT ![replay_i + 1] = ReplayPose(replay_i)]
    /\ sent' = sent \o MoveToPosition("step", replay_i, ReplayPose(replay_i))
    /\ replay_i' = replay_i + 1
    /\ UNCHANGED <<robotVars, process, circles, stage, pc, converter, robot_config, genVars, parseVars, mapVars, docVars,
                   file, HOME_POSITION, DRAWING_HEIGHT>>

\* After the loop: back home.
ReplayEnd ==
    /\ pc = "replay"
    /\ replay_i = Len(coordinates)
    /\ sent' = sent \o MoveToPosition("home", 0, HomePose)
    /\ pc' = "replayed"
    /\ UNCHANGED <<robotVars, process, circles, stage, converter, robot_config, genVars, parseVars, mapVars, docVars,
                   file, HOME_POSITION, DRAWING_HEIGHT, coordinates, replay_i>>

MaxReplayCmds == 2

\* Both programs read the same calibration.json.
ReplayInit ==
    /\ RobotIdle
    /\ ProcessIdle
    /\ CircleIdle
    /\ StageIdle
    /\ pc = "gen"
    /\ converter = "Onlab"
    /\ \E f \in CalibrationFiles :
          /\ robot_config = RobotConfig(f)
          /\ HOME_POSITION = (IF f.home_position = None THEN DefaultHome
                              ELSE Val(f.home_position))
          /\ DRAWING_HEIGHT = f.drawing_surface
    /\ robot_commands \in SeqsUpTo(GenCommands, MaxReplayCmds)
    /\ gi = 0
    /\ trajectory = <<>>
    /\ pen_state = "up"
    /\ current_x = None
    /\ current_y = None
    /\ ParseIdle
    /\ MapIdle
    /\ DocIdle
    /\ file = <<>> /\ coordinates = <<>> /\ replay_i = 0 /\ sent = <<>>

ReplayNext ==
    \/ GenEmpty
    \/ GenMove
    \/ GenLine
    \/ GenFinish
    \/ SaveTrajectory
    \/ ReplayBegin
    \/ ReplayStep
    \/ ReplayEnd

SpecReplay == ReplayInit /\ [][ReplayNext]_vars

-----------------------------------------------------------------------------
(* Properties of the replay.                                               *)

\* The targets sent from inside the replay loop, in order.
StepsSent == SelectSeq(sent, LAMBDA m : m.what = "step")

\* C8: the replay sends the loaded poses unmodified: one target per step of
\* the file, in order, equal to the file's pose with X, Y, Z converted from
\* mm to m; so a step the generator tagged Move is sent at the pen-up Z the
\* generator gave it.
C8_ReplaySendsFilePoses ==
    pc = "replayed" =>
        /\ Len(StepsSent) = Len(file)
        /\ \A k \in 1..Len(file) :
              /\ StepsSent[k].i = k - 1
              /\ StepsSent[k].target = mm_to_m(file[k][1])
              /\ trajectory[k][1] = "move" =>
                    StepsSent[k].target[3] = Rat(trajectory[k][2][3], 1000)

-----------------------------------------------------------------------------
(* The path command interpreters of Onlab/svg_code.py and svg_code.py on   *)
(* path data with curve and arc commands.                                  *)

ParseCubic ==
    /\ InLoop /\ BranchOf(parser) = "skip"
    /\ CurveBranchOf(converter, parser) = "cubic"
    /\ Iterate

ParseSmoothCubic ==
    /\ InLoop /\ BranchOf(parser) = "skip"
    /\ CurveBranchOf(converter, parser) = "smooth_cubic"
    /\ Iterate

ParseQuadratic ==
    /\ InLoop /\ BranchOf(parser) = "skip"
    /\ CurveBranchOf(converter, parser) = "quadratic"
    /\ Iterate

ParseSmoothQuadratic ==
    /\ InLoop /\ BranchOf(parser) = "skip"
    /\ CurveBranchOf(converter, parser) = "smooth_quadratic"
    /\ Iterate

ParseArc ==
    /\ InLoop /\ BranchOf(parser) = "skip"
    /\ CurveBranchOf(converter, parser) = "arc"
    /\ Iterate

\* "Skip unknown or incomplete commands"
ParseElse ==
    /\ InLoop /\ BranchOf(parser) = "skip"
    /\ CurveBranchOf(converter, parser) = "else"
    /\ Iterate

MaxCurveChunks == 3

CurveChunks ==
    { <<Cmd("M"), Num(1), Num(2)>>,
      <<Cmd("L"), Num(4), Num(3)>>,
      <<Cmd("C"), Num(0), Num(3), Num(3), Num(6), Num(6), Num(3)>>,
      <<Cmd("S"), Num(9), Num(0), Num(12), Num(3)>>,
      <<Cmd("Q"), Num(3), Num(6), Num(6), Num(0)>>,
      <<Cmd("T"), Num(12), Num(0)>>,
      <<Cmd("t"), Num(2), Num(1), Num(3), Junk>>,
      <<Cmd("A"), Num(0), Num(5), Num(0), Num(0), Num(1), Num(6), Num(2)>>,
      <<Cmd("A"), Num(5), Num(5), Num(0), Num(0), Num(1), Num(1), Num(2)>>,
      <<Cmd("A"), Num(-5), Num(5), Num(0), Num(0), Num(1), Num(9), Num(2)>>,
      <<Cmd("M"), Num(1), Junk, Num(2), Num(3)>>,
      <<Cmd("c"), Num(0), Num(3), Junk, Num(3), Num(6), Num(6), Num(3), Num(1)>> }

\* The path data made of a sequence of chunks.
CurvePaths ==
    {Flatten(d) : d \in SeqsUpTo(CurveChunks, MaxCurveChunks)} \ {<<>>}

CurveInit ==
    /\ RobotIdle
    /\ ProcessIdle
    /\ CircleIdle
    /\ StageIdle
    /\ pc = "parse"
    /\ converter \in {"Onlab", "root"}
    /\ robot_config = RobotConfigDefaults
    /\ GenIdle
    /\ \E d \in CurvePaths : paths = <<d>>
    /\ path_index = 0
    /\ parser = NewParser(paths[1], <<>>)
    /\ drawing_commands = <<>>
    /\ MapIdle
    /\ DocIdle
    /\ ReplayIdle

CurveNext ==
    \/ ParseLetter
    \/ ParseMoveTo
    \/ ParseLineTo
    \/ ParseCubic
    \/ ParseSmoothCubic
    \/ ParseQuadratic
    \/ ParseSmoothQuadratic
    \/ ParseArc
    \/ ParseElse
    \/ ParseEndPath

SpecCurve == CurveInit /\ [][CurveNext]_vars

-----------------------------------------------------------------------------
(* Properties of the curve and arc branches.                               *)

\* The interpreter is at the first operand of an S (four operands) or a T
\* (two operands) whose letter it has just read, and the operands are numbers.
SmoothOperands(p) ==
    IF p.i >= 1 /\ p.tokens[p.i].kind = "cmd" /\ p.tokens[p.i].letter \in {"S", "T"}
    THEN (IF p.tokens[p.i].letter = "S" THEN 4 ELSE 2)
    ELSE 0

AtSmoothOperands(p) ==
    /\ SmoothOperands(p) > 0
    /\ p.i + SmoothOperands(p) <= Len(p.tokens)
    /\ FloatsOk(p, 0, SmoothOperands(p)) = SmoothOperands(p)

\* Position of the command letter before the S or T letter, 0 if none.
PrevLetter(p) ==
    LET before == {j \in 1..(p.i - 1) : p.tokens[j].kind = "cmd"}
    IN  IF before = {} THEN 0 ELSE SetMax(before)

\* The command before the S or T is one whole command of n numeric operands.
PrevIs(p, letters, n) ==
    LET j == PrevLetter(p)
    IN  /\ j > 0
        /\ p.tokens[j].letter \in letters
        /\ p.i - 1 - j = n
        /\ \A h \in (j + 1)..(p.i - 1) : p.tokens[h].kind = "num"

\* The control point the smooth command has to reflect, <<>> when the
\* command before it is not a curve.
PrevControl(p) ==
    LET j == PrevLetter(p)
    IN  IF PrevIs(p, {"C"}, 6) THEN <<p.tokens[j + 3].num, p.tokens[j + 4].num>>
        ELSE IF PrevIs(p, {"Q"}, 4) THEN <<p.tokens[j + 1].num, p.tokens[j + 2].num>>
        ELSE <<>>

PrevKnown(p) ==
    \/ PrevLetter(p) = 0
    \/ PrevIs(p, {"C"}, 6)
    \/ PrevIs(p, {"Q"}, 4)
    \/ PrevIs(p, {"M", "L"}, 2)

\* The first control point of the smooth command: the reflection of the
\* previous control point through the current point, or the current point.
ReflectedControl(p) ==
    IF PrevControl(p) = <<>> THEN p.abs_position
    ELSE <<2 * p.abs_position[1] - PrevControl(p)[1],
           2 * p.abs_position[2] - PrevControl(p)[2]>>

\* The lines of the smooth command flattened with that control point.
SmoothLines(p) ==
    LET a == p.abs_position
        c == ReflectedControl(p)
    IN  IF SmoothOperands(p) = 4
        THEN BezierLines(FromInt(a[1]), FromInt(a[2]), FromInt(c[1]), FromInt(c[2]),
                         FromInt(Tok(p, 0).num), FromInt(Tok(p, 1).num),
                         FromInt(Tok(p, 2).num), FromInt(Tok(p, 3).num))
        ELSE QuadraticAsCubic(a[1], a[2], c[1], c[2], Tok(p, 0).num, Tok(p, 1).num)

\* C12: an S or T command is flattened with, as its first control point, the
\* reflection through the current point of the second (cubic) or only
\* (quadratic) control point of the curve command just before it, and with
\* the current point itself when the command just before it is not a curve.
C12_SmoothControlIsReflection ==
    [][ (InLoop /\ AtSmoothOperands(parser) /\ PrevKnown(parser)
           /\ parser'.tokens = parser.tokens)
        => /\ parser'.i = parser.i + SmoothOperands(parser)
           /\ parser'.drawing_commands
                 = parser.drawing_commands \o SmoothLines(parser) ]_vars

\* The operands the branch of the current command converts in one iteration.
OperandCount(p) ==
    CASE p.current_cmd \in {"M", "m", "L", "l", "T", "t"} -> 2
      [] p.current_cmd \in {"H", "h", "V", "v"} -> 1
      [] p.current_cmd \in {"C", "c"} -> 6
      [] p.current_cmd \in {"S", "s", "Q", "q"} -> 4
      [] p.current_cmd \in {"A", "a"} -> 7
      [] OTHER -> 0

\* The next OperandCount tokens are there, none is a command letter and at
\* least one is neither a number nor a command letter.
OperandsWithJunk(p) ==
    LET n == OperandCount(p)
    IN  /\ n > 0
        /\ p.i + n <= Len(p.tokens)
        /\ \A k \in 0..(n - 1) : Tok(p, k).kind \in {"num", "junk"}
        /\ \E k \in 0..(n - 1) : Tok(p, k).kind = "junk"

\* C13: where an operand is expected and a token is neither a number nor a
\* command letter, the interpreter skips that token and no other: it emits
\* nothing and raises nothing for it, keeps the commands emitted so far, and
\* does not drop a valid operand in its place.
C13_SkipsOnlyTheOffendingToken ==
    [][ (InLoop /\ converter = "Onlab" /\ OperandsWithJunk(parser))
        => /\ pc' = pc
           /\ parser'.tokens = parser.tokens
           /\ SubSeq(parser'.drawing_commands, 1, Len(parser.drawing_commands))
                 = parser.drawing_commands
           /\ IF Tok(parser, 0).kind = "junk"
              THEN /\ parser'.i = parser.i + 1
                   /\ parser'.drawing_commands = parser.drawing_commands
              ELSE ~( /\ parser'.i = parser.i + 1
                      /\ parser'.drawing_commands = parser.drawing_commands ) ]_vars

\* The interpreter is at the operands of an arc command: seven numbers.
AtArcOperands(p) ==
    /\ p.current_cmd \in {"A", "a"}
    /\ Tok(p, 0).kind # "cmd"
    /\ p.i + 7 <= Len(p.tokens)
    /\ FloatsOk(p, 0, 7) = 7

ArcEnd(p) ==
    <<Tok(p, 5).num + (IF p.current_cmd = "a" THEN p.abs_position[1] ELSE 0),
      Tok(p, 6).num + (IF p.current_cmd = "a" THEN p.abs_position[2] ELSE 0)>>

ArcDegenerate(p) ==
    \/ ArcEnd(p) = p.abs_position
    \/ Tok(p, 0).num = 0
    \/ Tok(p, 1).num = 0

\* C14: an arc command whose start point equals its end point, or whose rx
\* or ry is 0, emits exactly one Line, to the arc's end point.
C14_DegenerateArcIsOneLine ==
    [][ (InLoop /\ AtArcOperands(parser) /\ ArcDegenerate(parser)
           /\ parser'.tokens = parser.tokens)
        => /\ parser'.i = parser.i + 7
           /\ parser'.drawing_commands
                 = Append(parser.drawing_commands,
                          <<"line", ArcEnd(parser)[1], ArcEnd(parser)[2]>>) ]_vars

-----------------------------------------------------------------------------
(* The closer and the optimizer of Onlab/svg_code.py.                      *)
(* convert_svg_to_trajectory hands the parsed commands to                  *)
(* detect_closed_paths and then, PATH_OPTIMIZATION being set, to           *)
(* optimize_paths.  Coordinates are rationals <<num, den>>.                *)

PATH_OPTIMIZATION == TRUE
PATH_TOLERANCE == <<1, 2>>

\* The cap on the commands of one path.  The source's value is 1000; the
\* model takes a cap that lists of MaxStageCmds commands reach.
MAX_SEGMENTS_PER_PATH == 3

\* distance(x1, y1, x2, y2), squared
DistanceSq(x1, y1, x2, y2) ==
    RatAdd(RatMul(RatSub(x2, x1), RatSub(x2, x1)),
           RatMul(RatSub(y2, y1), RatSub(y2, y1)))

RatLess(a, b) == ~RatLeq(b, a)

ToleranceSq == RatMul(PATH_TOLERANCE, PATH_TOLERANCE)

\* distance(...) < PATH_TOLERANCE, in place of the optimizer's <=
CloseEnough_Strict(x1, y1, x2, y2) ==
    RatLess(DistanceSq(x1, y1, x2, y2), ToleranceSq)

\* optimize_paths: distance(...) <= PATH_TOLERANCE
CloseEnough(x1, y1, x2, y2) ==
    RatLeq(DistanceSq(x1, y1, x2, y2), ToleranceSq)

\* detect_closed_paths: distance(...) < PATH_TOLERANCE
NearStart(x1, y1, x2, y2) ==
    RatLess(DistanceSq(x1, y1, x2, y2), ToleranceSq)

\* One iteration of the loop of optimize_paths on command number i
\* (counted from 0); st holds the locals optimized and current_path.
OptimizeCommand(st, i, cmd) ==
    IF cmd[1] = "move"
    THEN LET flushed == st.optimized \o st.current_path
         IN  IF /\ i > 0
                /\ Len(flushed) > 0
                /\ CloseEnough(Last(flushed)[2], Last(flushed)[3], cmd[2], cmd[3])
             THEN [optimized |-> Append(flushed, <<"line", cmd[2], cmd[3]>>),
                   current_path |-> <<>>]
             ELSE [optimized |-> flushed, current_path |-> <<cmd>>]
    ELSE LET path == Append(st.current_path, cmd)
         IN  IF Len(path) >= MAX_SEGMENTS_PER_PATH
             THEN [optimized |-> st.optimized \o path, current_path |-> <<>>]
             ELSE [optimized |-> st.optimized, current_path |-> path]

RECURSIVE OptimizeLoop(_, _, _)
OptimizeLoop(st, cmds, i) ==
    IF i = Len(cmds) THEN st
    ELSE OptimizeLoop(OptimizeCommand(st, i, cmds[i + 1]), cmds, i + 1)

optimize_paths(cmds) ==
    IF ~PATH_OPTIMIZATION \/ cmds = <<>> THEN cmds
    ELSE LET st == OptimizeLoop([optimized |-> <<>>, current_path |-> <<>>], cmds, 0)
         IN  st.optimized \o st.current_path

\* detect_closed_paths: the last point of result is close to path_start but
\* not exactly at it.
NeedsClosing(result, path_start) ==
    /\ path_start # None
    /\ Len(result) > 0
    /\ NearStart(Last(result)[2], Last(result)[3],
                 Val(path_start)[1], Val(path_start)[2])
    /\ \/ Last(result)[2] # Val(path_start)[1]
       \/ Last(result)[3] # Val(path_start)[2]

CloseResult(result, path_start) ==
    IF NeedsClosing(result, path_start)
    THEN Append(result, <<"line", Val(path_start)[1], Val(path_start)[2]>>)
    ELSE result

\* One iteration of the loop of detect_closed_paths; st holds the locals
\* result and path_start.
DetectCommand(st, cmd) ==
    IF cmd[1] = "move"
    THEN [result |-> Append(CloseResult(st.result, st.path_start), cmd),
          path_start |-> Some(<<cmd[2], cmd[3]>>)]
    ELSE [result |-> Append(st.result, cmd), path_start |-> st.path_start]

RECURSIVE DetectLoop(_, _)
DetectLoop(st, cmds) ==
    IF cmds = <<>> THEN st
    ELSE DetectLoop(DetectCommand(st, Head(cmds)), Tail(cmds))

detect_closed_paths(cmds) ==
    IF cmds = <<>> THEN cmds
    ELSE LET st == DetectLoop([result |-> <<>>, path_start |-> None], cmds)
         IN  CloseResult(st.result, st.path_start)

\* convert_svg_to_trajectory: drawing_commands = detect_closed_paths(...)
DetectClosedPaths ==
    /\ pc = "detect_closed_paths"
    /\ drawing_commands' = detect_closed_paths(drawing_commands)
    /\ stage' = [stage EXCEPT !.before = drawing_commands]
    /\ pc' = "optimize_paths"
    /\ UNCHANGED <<robotVars, process, circles, converter, robot_config, genVars, paths, path_index, parser,
                   mapVars, docVars, replayVars>>

\* convert_svg_to_trajectory: drawing_commands = optimize_paths(...)
OptimizePaths ==
    /\ pc = "optimize_paths"
    /\ PATH_OPTIMIZATION
    /\ drawing_commands' = optimize_paths(drawing_commands)
    /\ stage' = [before |-> drawing_commands,
                 outputs |-> Append(stage.outputs, optimize_paths(drawing_commands))]
    /\ pc' = "scale_to_robot_coordinates"
    /\ UNCHANGED <<robotVars, process, circles, converter, robot_config, genVars, paths, path_index, parser,
                   mapVars, docVars, replayVars>>

\* The stage is given its own output.
MaxPasses == 2

StageAgain ==
    /\ pc = "scale_to_robot_coordinates"
    /\ Len(stage.outputs) < MaxPasses
    /\ pc' = "detect_closed_paths"
    /\ UNCHANGED <<robotVars, process, circles, converter, robot_config, genVars, parseVars, mapVars, docVars,
                   replayVars, stage>>

MaxStageCmds == 4

StageCommands ==
    { <<"move", <<0, 1>>, <<0, 1>>>>,
      <<"line", <<0, 1>>, <<0, 1>>>>,
      <<"line", <<3, 10>>, <<0, 1>>>>,
      <<"line", <<1, 2>>, <<0, 1>>>>,
      <<"line", <<4, 1>>, <<0, 1>>>>,
      <<"move", <<9, 2>>, <<0, 1>>>>,
      <<"move", <<4, 1>>, <<3, 10>>>> }

StageInit ==
    /\ RobotIdle
    /\ ProcessIdle
    /\ CircleIdle
    /\ pc = "detect_closed_paths"
    /\ converter = "Onlab"
    /\ robot_config = RobotConfigDefaults
    /\ GenIdle
    /\ paths = <<>>
    /\ path_index = 0
    /\ parser = <<>>
    /\ drawing_commands \in SeqsUpTo(StageCommands, MaxStageCmds) \ {<<>>}
    /\ MapIdle
    /\ DocIdle
    /\ ReplayIdle
    /\ stage = [before |-> <<>>, outputs |-> <<>>]

StageNext == DetectClosedPaths \/ OptimizePaths \/ StageAgain

SpecStage == StageInit /\ [][StageNext]_vars

-----------------------------------------------------------------------------
(* Properties of the closer and the optimizer.                             *)

Pt(cmd) == <<cmd[2], cmd[3]>>

\* The points a and b are at most PATH_TOLERANCE apart.
WithinTolerance(a, b) ==
    LET dx == RatSub(b[1], a[1])
        dy == RatSub(b[2], a[2])
    IN  RatLeq(RatAdd(RatMul(dx, dx), RatMul(dy, dy)),
               RatMul(PATH_TOLERANCE, PATH_TOLERANCE))

\* The number of the Move that opens the subpath of command i, 0 if none.
SubpathStart(cmds, i) ==
    LET ms == {j \in 1..i : cmds[j][1] = "move"}
    IN  IF ms = {} THEN 0 ELSE SetMax(ms)

SubpathEndsAt(cmds, i) == i = Len(cmds) \/ cmds[i + 1][1] = "move"

\* The corrective Line due after command i: one Line to the start of the
\* subpath that ends at i, if its final point is within the tolerance of
\* its start without being equal to it.
ClosingLine(cmds, i) ==
    LET a == SubpathStart(cmds, i)
    IN  IF /\ a > 0
           /\ SubpathEndsAt(cmds, i)
           /\ WithinTolerance(Pt(cmds[i]), Pt(cmds[a]))
           /\ Pt(cmds[i]) # Pt(cmds[a])
        THEN << <<"line", cmds[a][2], cmds[a][3]>> >>
        ELSE <<>>

ClosedSubpaths(cmds) ==
    Flatten([i \in 1..Len(cmds) |-> <<cmds[i]>> \o ClosingLine(cmds, i)])

\* C15: detect_closed_paths appends to every subpath one corrective Line to
\* its exact start if the subpath's final point is at most PATH_TOLERANCE
\* away from the start without being equal to it, and nothing otherwise;
\* the distance test is the optimizer's (distance at most the tolerance).
C15_ClosesSubpathsWithinTolerance ==
    pc = "optimize_paths" => drawing_commands = ClosedSubpaths(stage.before)

\* The commands with every Move but the first command retagged Line when
\* its target is within the tolerance of the point of the command before.
Retagged(cmds) ==
    [i \in 1..Len(cmds) |->
        IF /\ i > 1
           /\ cmds[i][1] = "move"
           /\ WithinTolerance(Pt(cmds[i - 1]), Pt(cmds[i]))
        THEN <<"line", cmds[i][2], cmds[i][3]>>
        ELSE cmds[i]]

\* C16: the output of optimize_paths is its input with every Move, other
\* than the very first command, whose target is within PATH_TOLERANCE of
\* the point emitted just before it retagged Line; every other command
\* keeps its tag, and number, order and coordinates are unchanged.
C16_OptimizerOnlyRetagsNearMoves ==
    pc = "scale_to_robot_coordinates" => drawing_commands = Retagged(stage.before)

\* An optimizer run that retagged one Move and kept another that is not the
\* first command.
C16_Witness ==
    /\ pc = "scale_to_robot_coordinates"
    /\ \E i \in 2..Len(stage.before) :
          stage.before[i][1] = "move" /\ drawing_commands[i][1] = "line"
    /\ \E j \in 2..Len(stage.before) :
          stage.before[j][1] = "move" /\ drawing_commands[j][1] = "move"

\* C17: the closer followed by the optimizer, given its own output, returns
\* that output unchanged.
C17_StageIsIdempotent ==
    \A k \in 2..Len(stage.outputs) : stage.outputs[k] = stage.outputs[k - 1]

\* C18: in the optimizer's output every run of more than
\* MAX_SEGMENTS_PER_PATH consecutive commands has a Move inside it: no stroke
\* is longer than the cap.
C18_StrokesWithinCap ==
    pc = "scale_to_robot_coordinates"
    => \A a \in 1..(Len(drawing_commands) - MAX_SEGMENTS_PER_PATH) :
          \E j \in (a + 1)..(a + MAX_SEGMENTS_PER_PATH) :
             drawing_commands[j][1] = "move"

-----------------------------------------------------------------------------
(* The workspace mappers under a uniform scaling of the source drawing.    *)

UniformFactors == {2, 3}

\* The mapper of the converter at hand.
MapOf(cmds) ==
    IF converter = "Onlab"
    THEN scale_to_robot_coordinates(cmds, robot_config, preserve_aspect_ratio,
                                    scale_factor)
    ELSE scale_to_a4(cmds)

\* The source drawing scaled by k.
ScaledDrawing(cmds, k) ==
    [i \in 1..Len(cmds) |-> <<cmds[i][1], k * cmds[i][2], k * cmds[i][3]>>]

\* Mapped commands with their coordinates scaled by k.
ScaledMapped(out, k) ==
    [i \in 1..Len(out) |->
        <<out[i][1], RatMul(FromInt(k), out[i][2]), RatMul(FromInt(k), out[i][3])>>]

\* k times the mapped shape still fits the sheet.
MappedFits(out, k) ==
    LET xs == {out[i][2] : i \in 1..Len(out)}
        ys == {out[i][3] : i \in 1..Len(out)}
    IN  /\ RatLeq(RatMul(FromInt(k), RatSub(RatSeqMax(xs), RatSeqMin(xs))), MapTarget[1])
        /\ RatLeq(RatMul(FromInt(k), RatSub(RatSeqMax(ys), RatSeqMin(ys))), MapTarget[2])

AspectPreservingMapped ==
    /\ pc = "mapped"
    /\ preserve_aspect_ratio
    /\ map_commands # <<>>
    /\ InputWidth # 0
    /\ InputHeight # 0

\* C19 as stated: in aspect-preserving mode, mapping the drawing scaled by k
\* gives the mapped commands of the drawing with their coordinates scaled by
\* k, for every k that keeps the shape within the sheet.
C19_ScalingCommutesWithMapping ==
    AspectPreservingMapped =>
        \A k \in UniformFactors :
            MappedFits(map_result.commands, k) =>
                MapOf(ScaledDrawing(map_commands, k)).commands
                   = ScaledMapped(map_result.commands, k)

\* C19: in aspect-preserving mode, mapping a drawing of non-zero width and
\* height scaled by a uniform factor k gives exactly the output of mapping
\* the drawing itself: the mapper fits every drawing to the same sheet.
C19_MappingIgnoresUniformScale ==
    AspectPreservingMapped =>
        \A k \in UniformFactors : MapOf(ScaledDrawing(map_commands, k)) = map_result

\* A mapped three-command drawing that twice its mapped size would still fit.
C19_Witness ==
    /\ AspectPreservingMapped
    /\ converter = "Onlab"
    /\ scale_factor = DRAWING_SCALE
    /\ Len(map_commands) = 3
    /\ robot_config.center_x # 0
    /\ MappedFits(map_result.commands, 2)

-----------------------------------------------------------------------------
(* <rect> elements in both converters.  Onlab/svg_code.py appends the      *)
(* commands of a rect itself; svg_code.py writes the rect as path data     *)
(* "M x,y L x+w,y L x+w,y+h L x,y+h Z" and hands it, with the other paths, *)
(* to parse_path_commands.  The Z is the last token of its path, so the    *)
(* close branch of the interpreter is not among the steps of these         *)
(* documents.                                                              *)

\* svg_code.py: rect_path, as the tokens the interpreter splits it into.
RootRectPath(r) ==
    << Cmd("M"), Num(r.x.num), Num(r.y.num),
       Cmd("L"), Num(r.x.num + r.width.num), Num(r.y.num),
       Cmd("L"), Num(r.x.num + r.width.num), Num(r.y.num + r.height.num),
       Cmd("L"), Num(r.x.num), Num(r.y.num + r.height.num),
       Cmd("Z") >>

\* svg_code.py: one <rect> becomes one more path.
RootRect ==
    /\ pc = "rects" /\ converter = "root"
    /\ shape_index < Len(rects)
    /\ RectOk(rects[shape_index + 1])
    /\ paths' = Append(paths, RootRectPath(rects[shape_index + 1]))
    /\ shape_index' = shape_index + 1
    /\ UNCHANGED <<robotVars, process, circles, stage, pc, converter, robot_config, genVars, path_index, parser,
                   drawing_commands, mapVars, rects, lines, replayVars>>

\* svg_code.py: "return self.parse_path_commands(paths)"
RootRectsDone ==
    /\ pc = "rects" /\ converter = "root"
    /\ shape_index = Len(rects)
    /\ paths # <<>>
    /\ pc' = "parse"
    /\ parser' = NewParser(paths[1], <<>>)
    /\ UNCHANGED <<robotVars, process, circles, stage, converter, robot_config, genVars, paths, path_index,
                   drawing_commands, mapVars, docVars, replayVars>>

MaxRects == 2

NumericRects ==
    { [x |-> Num(a), y |-> Num(b), width |-> Num(2), height |-> Num(c)] :
         a \in {0, 1}, b \in {0, 1}, c \in {0, 3} }

RectInit ==
    /\ RobotIdle
    /\ ProcessIdle
    /\ CircleIdle
    /\ StageIdle
    /\ converter \in {"Onlab", "root"}
    /\ pc = (IF converter = "Onlab" THEN "parsed" ELSE "rects")
    /\ robot_config = RobotConfigDefaults
    /\ GenIdle
    /\ MapIdle
    /\ paths = <<>>
    /\ path_index = 0
    /\ parser = NewParser(<<>>, <<>>)
    /\ drawing_commands = <<>>
    /\ rects \in SeqsUpTo(NumericRects, MaxRects) \ {<<>>}
    /\ lines = <<>>
    /\ shape_index = 0
    /\ ReplayIdle

RectNext ==
    \/ ParseRect
    \/ ParseRectsDone
    \/ ParseReturn
    \/ RootRect
    \/ RootRectsDone
    \/ ParseLetter
    \/ ParseMoveTo
    \/ ParseLineTo
    \/ ParseEndPath

SpecRect == RectInit /\ [][RectNext]_vars

\* Move to the corner, three Lines around the perimeter, one Line back.
FiveCommands(r) ==
    LET x == r.x.num
        y == r.y.num
        w == r.width.num
        h == r.height.num
    IN  << <<"move", x, y>>, <<"line", x + w, y>>, <<"line", x + w, y + h>>,
           <<"line", x, y + h>>, <<"line", x, y>> >>

RectsConverted ==
    \/ converter = "Onlab" /\ pc = "returned"
    \/ converter = "root" /\ pc = "parsed"

\* C20: every rect element yields exactly five commands: a Move to its
\* corner (x, y), three Lines around the perimeter and one Line back to
\* (x, y).
C20_RectYieldsFiveCommands ==
    RectsConverted =>
        drawing_commands = Flatten([k \in 1..Len(rects) |-> FiveCommands(rects[k])])

-----------------------------------------------------------------------------
(* <circle> elements in both converters.  Onlab/svg_code.py appends the    *)
(* commands of circle_to_commands; svg_code.py writes the circle as path   *)
(* data "M cx-r,cy L x,y L x,y ..." and hands it to parse_path_commands.   *)
(* The code computes cos and sin in floats; the model computes in          *)
(* thousandths, cos and sin taken from a table of the multiples of 5       *)
(* degrees rounded to three places.  A coordinate n stands for n / 1000.   *)

\* 1000 * cos of 0, 5, ..., 90 degrees
CosTable ==
    <<1000, 996, 985, 966, 940, 906, 866, 819, 766, 707,
      643, 574, 500, 423, 342, 259, 174, 87, 0>>

\* 1000 * math.cos(math.radians(angle)), angle a multiple of 5
Cos(angle) ==
    LET b == angle % 360
    IN  IF b <= 90 THEN CosTable[(b \div 5) + 1]
        ELSE IF b <= 180 THEN -CosTable[((180 - b) \div 5) + 1]
        ELSE IF b <= 270 THEN -CosTable[((b - 180) \div 5) + 1]
        ELSE CosTable[((360 - b) \div 5) + 1]

\* 1000 * math.sin(math.radians(angle))
Sin(angle) == Cos(angle + 270)

\* Onlab/svg_code.py circle_to_commands, num_segments = 36
circle_to_commands(cx, cy, r) ==
    << <<"move", 1000 * cx + r * Cos(0), 1000 * cy + r * Sin(0)>> >>
    \o [i \in 1..36 |->
          <<"line", 1000 * cx + r * Cos((i * 360) \div 36),
                    1000 * cy + r * Sin((i * 360) \div 36)>>]

\* Onlab/svg_code.py: one <circle>
ParseCircle ==
    /\ pc = "circles" /\ converter = "Onlab"
    /\ shape_index < Len(circles)
    /\ LET c == circles[shape_index + 1]
       IN  drawing_commands' = drawing_commands \o circle_to_commands(c.cx, c.cy, c.r)
    /\ shape_index' = shape_index + 1
    /\ UNCHANGED <<robotVars, process, circles, stage, pc, converter, robot_config, genVars, paths,
                   path_index, parser, mapVars, rects, lines, replayVars>>

\* Onlab/svg_code.py: the <circle> loop ends, the <rect> loop starts.
ParseCirclesDone ==
    /\ pc = "circles" /\ converter = "Onlab"
    /\ shape_index = Len(circles)
    /\ pc' = "parsed"
    /\ shape_index' = 0
    /\ UNCHANGED <<robotVars, process, circles, stage, converter, robot_config, genVars, parseVars,
                   mapVars, rects, lines, replayVars>>

\* svg_code.py: circle_path, as the tokens the interpreter splits it into:
\* "M cx-r,cy" and then "L x,y" for the angles 0, 5, ..., 360.
RootCirclePath(c) ==
    <<Cmd("M"), Num(1000 * (c.cx - c.r)), Num(1000 * c.cy)>>
    \o Flatten([k \in 1..73 |->
                   <<Cmd("L"), Num(1000 * c.cx + c.r * Cos(5 * (k - 1))),
                               Num(1000 * c.cy + c.r * Sin(5 * (k - 1)))>>])

\* svg_code.py: one <circle> becomes one more path.
RootCircle ==
    /\ pc = "circles" /\ converter = "root"
    /\ shape_index < Len(circles)
    /\ paths' = Append(paths, RootCirclePath(circles[shape_index + 1]))
    /\ shape_index' = shape_index + 1
    /\ UNCHANGED <<robotVars, process, circles, stage, pc, converter, robot_config, genVars, path_index,
                   parser, drawing_commands, mapVars, rects, lines, replayVars>>

\* svg_code.py: the <circle> loop ends, the <rect> loop starts.
RootCirclesDone ==
    /\ pc = "circles" /\ converter = "root"
    /\ shape_index = Len(circles)
    /\ pc' = "rects"
    /\ shape_index' = 0
    /\ UNCHANGED <<robotVars, process, circles, stage, converter, robot_config, genVars, parseVars,
                   mapVars, rects, lines, replayVars>>

MaxCircles == 2

CircleElements == {[cx |-> a, cy |-> 3, r |-> c] : a \in {0, 5}, c \in {1, 2}}

CircleInit ==
    /\ RobotIdle
    /\ ProcessIdle
    /\ StageIdle
    /\ pc = "circles"
    /\ converter \in {"Onlab", "root"}
    /\ robot_config = RobotConfigDefaults
    /\ GenIdle
    /\ MapIdle
    /\ paths = <<>>
    /\ path_index = 0
    /\ parser = NewParser(<<>>, <<>>)
    /\ drawing_commands = <<>>
    /\ circles \in SeqsUpTo(CircleElements, MaxCircles) \ {<<>>}
    /\ rects = <<>>
    /\ lines = <<>>
    /\ shape_index = 0
    /\ ReplayIdle

CircleNext ==
    \/ ParseCircle
    \/ ParseCirclesDone
    \/ ParseRectsDone
    \/ ParseReturn
    \/ RootCircle
    \/ RootCirclesDone
    \/ RootRectsDone
    \/ ParseLetter
    \/ ParseMoveTo
    \/ ParseLineTo
    \/ ParseEndPath

SpecCircle == CircleInit /\ [][CircleNext]_vars

\* The point of the circle at the angle, in thousandths.
CirclePoint(c, angle) ==
    <<1000 * c.cx + c.r * Cos(angle), 1000 * c.cy + c.r * Sin(angle)>>

\* One Move to the angle-0 point and 36 Lines at steps of 10 degrees.
ThirtySevenCommands(c) ==
    [k \in 1..37 |->
        <<IF k = 1 THEN "move" ELSE "line",
          CirclePoint(c, 10 * (k - 1))[1], CirclePoint(c, 10 * (k - 1))[2]>>]

\* C21: every circle element yields exactly 37 commands: a Move to the
\* angle-0 point (cx + r, cy), then 36 Lines at equal angular steps, the
\* last of them to the point of the Move.
C21_CircleYieldsThirtySevenCommands ==
    RectsConverted =>
        /\ drawing_commands
              = Flatten([k \in 1..Len(circles) |-> ThirtySevenCommands(circles[k])])
        /\ \A k \in 1..Len(circles) :
              /\ drawing_commands[37 * (k - 1) + 1]
                    = <<"move", 1000 * (circles[k].cx + circles[k].r), 1000 * circles[k].cy>>
              /\ drawing_commands[37 * k][2] = drawing_commands[37 * (k - 1) + 1][2]
              /\ drawing_commands[37 * k][3] = drawing_commands[37 * (k - 1) + 1][3]

-----------------------------------------------------------------------------
(* Onlab/svg_code.py main(): RobotConfig, the check of the input file,     *)
(* convert_svg_to_trajectory and save_trajectory.  The input file is       *)
(* missing, not well-formed XML, without a drawable element, a drawing of  *)
(* zero width or height (the mapper raises ZeroDivisionError), or a        *)
(* drawing; a drawing is given by the commands the mapper returns for it.  *)
(* The exit status is the one the interpreter ends with: 0 when main()     *)
(* returns, 1 when an exception leaves it.                                 *)

MainExit(status) ==
    /\ pc' = "exited"
    /\ process' = [process EXCEPT !.exit_status = Some(status)]

\* main(): "if not os.path.exists(INPUT_SVG_FILE): ... return"
MainInputMissing ==
    /\ pc = "main"
    /\ process.svg_file = "missing"
    /\ MainExit(0)
    /\ UNCHANGED <<robotVars, circles, stage, converter, robot_config, genVars, parseVars,
                   mapVars, docVars, replayVars>>

\* convert_svg_to_trajectory: parse_svg_path returns [] (ParseError caught,
\* or nothing found), "if not drawing_commands: return []".
MainConvertFails ==
    /\ pc = "main"
    /\ process.svg_file \in {"parse_error", "no_drawable"}
    /\ trajectory' = <<>>
    /\ pc' = "converted"
    /\ UNCHANGED <<robotVars, circles, stage, process, converter, robot_config, robot_commands,
                   gi, pen_state, current_x, current_y, parseVars, mapVars, docVars,
                   replayVars>>

\* convert_svg_to_trajectory: scale_to_robot_coordinates raises
\* ZeroDivisionError, which neither it nor main() catches.
MainConvertRaises ==
    /\ pc = "main"
    /\ process.svg_file = "zero_extent"
    /\ MainExit(1)
    /\ UNCHANGED <<robotVars, circles, stage, converter, robot_config, genVars, parseVars,
                   mapVars, docVars, replayVars>>

\* convert_svg_to_trajectory up to "robot_commands = ...": generate_trajectory
\* is next.
MainConvertScales ==
    /\ pc = "main"
    /\ process.svg_file = "drawing"
    /\ robot_commands' = process.mapped
    /\ pc' = "gen"
    /\ UNCHANGED <<robotVars, circles, stage, process, converter, robot_config, gi, trajectory,
                   pen_state, current_x, current_y, parseVars, mapVars, docVars,
                   replayVars>>

\* main(): "if not trajectory: print(...); return"
MainNoTrajectory ==
    /\ pc = "converted"
    /\ trajectory = <<>>
    /\ MainExit(0)
    /\ UNCHANGED <<robotVars, circles, stage, converter, robot_config, genVars, parseVars,
                   mapVars, docVars, replayVars>>

\* main(): save_trajectory returned True, main() returns.
MainSaved ==
    /\ pc = "saved"
    /\ MainExit(0)
    /\ UNCHANGED <<robotVars, circles, stage, converter, robot_config, genVars, parseVars,
                   mapVars, docVars, replayVars>>

MaxMainCmds == 2

MainInputs ==
    {[svg_file |-> k, mapped |-> <<>>, exit_status |-> None] :
        k \in {"missing", "parse_error", "no_drawable", "zero_extent"}}
    \cup
    {[svg_file |-> "drawing", mapped |-> m, exit_status |-> None] :
        m \in SeqsUpTo(GenCommands, MaxMainCmds) \ {<<>>}}

MainInit ==
    /\ RobotIdle
    /\ CircleIdle
    /\ StageIdle
    /\ pc = "main"
    /\ converter = "Onlab"
    /\ \E f \in CalibrationFiles :
          /\ robot_config = RobotConfig(f)
          /\ HOME_POSITION = (IF f.home_position = None THEN DefaultHome
                              ELSE Val(f.home_position))
          /\ DRAWING_HEIGHT = f.drawing_surface
    /\ GenIdle
    /\ ParseIdle
    /\ MapIdle
    /\ DocIdle
    /\ file = <<>> /\ coordinates = <<>> /\ replay_i = 0 /\ sent = <<>>
    /\ process \in MainInputs

MainNext ==
    \/ MainInputMissing
    \/ MainConvertFails
    \/ MainConvertRaises
    \/ MainConvertScales
    \/ GenMove
    \/ GenLine
    \/ GenFinish
    \/ MainNoTrajectory
    \/ SaveTrajectory
    \/ MainSaved

SpecMain == MainInit /\ [][MainNext]_vars

\* C22: when the conversion fails because the input file is missing, is not
\* well-formed XML or has no drawable element, the trajectory is empty, no
\* trajectory file is written and the process ends with a non-zero status.
C22_FailedConversionSignalsFailure ==
    (pc = "exited" /\ process.svg_file \in {"missing", "parse_error", "no_drawable"})
    => /\ trajectory = <<>>
       /\ file = <<>>
       /\ Val(process.exit_status) # 0

-----------------------------------------------------------------------------
(* The trajectory file between its writers and its readers.  Onlab's       *)
(* save_trajectory is SaveTrajectory above; the root converter's writes    *)
(* the pair (cmd, pose) per step.  The readers are main_drawing.py         *)
(* execute_trajectory, Onlab/drawing_app.py load_trajectory_from_json and  *)
(* Onlab/csakdash.py draw_from_json.                                       *)

\* [float(p) for p in pose]
SerializablePose(pose) == [k \in 1..Len(pose) |-> PoseValue(k, pose[k])]

\* svg_code.py save_trajectory: every record is [cmd, pose].
RootSaveTrajectory ==
    /\ pc = "done" /\ converter = "root"
    /\ trajectory # <<>>
    /\ file' = [k \in 1..Len(trajectory) |->
                   <<trajectory[k][1], SerializablePose(trajectory[k][2])>>]
    /\ pc' = "saved"
    /\ UNCHANGED <<robotVars, process, circles, stage, converter, robot_config, genVars,
                   parseVars, mapVars, docVars, HOME_POSITION, DRAWING_HEIGHT,
                   coordinates, replay_i, sent>>

\* The n-th element of a record of the file with its JSON type.  A record of
\* one element is Onlab's [pose]; a record of two is the root's [cmd, pose].
JsonElement(item, n) ==
    IF Len(item) = 2 /\ n = 1
    THEN [type |-> "string", val |-> item[n]]
    ELSE [type |-> "array", val |-> item[n]]

\* main_drawing.py execute_trajectory: "for i, (cmd, pose) in
\* enumerate(trajectory)" raises ValueError on a record that is not a pair;
\* the handler lifts the pen and returns False.
UnpackRaises(item) == Len(item) # 2

RECURSIVE ExecuteTrajectorySteps(_)
ExecuteTrajectorySteps(data) ==
    IF data = <<>> THEN [raised |-> FALSE, steps |-> <<>>]
    ELSE IF UnpackRaises(Head(data)) THEN [raised |-> TRUE, steps |-> <<>>]
    ELSE LET rest == ExecuteTrajectorySteps(Tail(data))
         IN  [raised |-> rest.raised,
              steps |-> <<[pose |-> JsonElement(Head(data), 2),
                           cmd |-> Some(Head(data)[1])]>> \o rest.steps]

\* drawing_app.py load_trajectory_from_json: coordinates = [item[0] for item
\* in data]; no tag is read.
LoadTrajectoryFromJson(data) ==
    [raised |-> FALSE,
     steps |-> [k \in 1..Len(data) |->
                   [pose |-> JsonElement(data[k], 1), cmd |-> None]]]

\* csakdash.py draw_from_json takes every record for a pose of six numbers:
\* format_position and first_point[2] raise on a shorter record, the handler
\* lifts the pen and returns False.  A file of fewer than two records is
\* rejected before that.
DrawFromJsonSteps(data) ==
    IF Len(data) < 2 THEN [raised |-> FALSE, steps |-> <<>>]
    ELSE IF \E k \in 1..Len(data) : Len(data[k]) < 6
         THEN [raised |-> TRUE, steps |-> <<>>]
         ELSE [raised |-> FALSE,
               steps |-> [k \in 1..Len(data) |->
                             [pose |-> [type |-> "array", val |-> data[k]],
                              cmd |-> None]]]

Readers == {"main_drawing", "drawing_app", "csakdash"}

Read(reader, data) ==
    CASE reader = "main_drawing" -> ExecuteTrajectorySteps(data)
      [] reader = "drawing_app"  -> LoadTrajectoryFromJson(data)
      [] reader = "csakdash"     -> DrawFromJsonSteps(data)

LoadMainDrawing ==
    /\ pc = "saved"
    /\ loaded' = [reader |-> "main_drawing"] @@ Read("main_drawing", file)
    /\ pc' = "loaded"
    /\ UNCHANGED <<controller, session, process, circles, stage, converter, robot_config,
                   genVars, parseVars, mapVars, docVars, replayVars>>

LoadDrawingApp ==
    /\ pc = "saved"
    /\ loaded' = [reader |-> "drawing_app"] @@ Read("drawing_app", file)
    /\ pc' = "loaded"
    /\ UNCHANGED <<controller, session, process, circles, stage, converter, robot_config,
                   genVars, parseVars, mapVars, docVars, replayVars>>

LoadCsakdash ==
    /\ pc = "saved"
    /\ loaded' = [reader |-> "csakdash"] @@ Read("csakdash", file)
    /\ pc' = "loaded"
    /\ UNCHANGED <<controller, session, process, circles, stage, converter, robot_config,
                   genVars, parseVars, mapVars, docVars, replayVars>>

MaxLoadCmds == 2

LoadInit ==
    /\ loaded = <<>> /\ controller = <<>> /\ session = <<>>
    /\ ProcessIdle
    /\ CircleIdle
    /\ StageIdle
    /\ pc = "gen"
    /\ converter \in {"Onlab", "root"}
    /\ robot_config = RobotConfigDefaults
    /\ robot_commands \in SeqsUpTo(GenCommands, MaxLoadCmds) \ {<<>>}
    /\ gi = 0
    /\ trajectory = <<>>
    /\ pen_state = "up"
    /\ current_x = None
    /\ current_y = None
    /\ ParseIdle
    /\ MapIdle
    /\ DocIdle
    /\ ReplayIdle

LoadNext ==
    \/ GenMove
    \/ GenLine
    \/ GenFinish
    \/ RootGenerateTrajectory
    \/ SaveTrajectory
    \/ RootSaveTrajectory
    \/ LoadMainDrawing
    \/ LoadDrawingApp
    \/ LoadCsakdash

SpecLoad == LoadInit /\ [][LoadNext]_vars

\* The k-th step as the reader got it is the k-th step that was saved: the
\* same pose and, where the reader takes a tag, the same tag.
SameStep(k) ==
    /\ loaded.steps[k].pose.type = "array"
    /\ loaded.steps[k].pose.val = SerializablePose(trajectory[k][2])
    /\ loaded.steps[k].cmd # None => Val(loaded.steps[k].cmd) = trajectory[k][1]

\* C23: a trajectory file saved by either converter and loaded by any of the
\* three readers yields the saved steps: the same poses in the same order,
\* with the same pen state for each step.
C23_EveryReaderYieldsTheSavedSteps ==
    pc = "loaded"
    => /\ ~loaded.raised
       /\ Len(loaded.steps) = Len(trajectory)
       /\ \A k \in 1..Len(loaded.steps) : SameStep(k)

-----------------------------------------------------------------------------
(* Onlab/csakdash.py URDrawingController.  Lengths are mm as rationals     *)
(* <<num, den>>, a pose is a list of six of them.  Python lists are        *)
(* objects: controller.lists maps a reference to the list it names, and    *)
(* home_position and last_known_position hold references, so two names of  *)
(* one list see each other's item assignments.  The references are         *)
(* "calibration" (the list json.load or load_calibration's handler made),  *)
(* "fresh" (the list the latest copy or interpolation made), "argument"    *)
(* (the list a caller passed to move_tcp) and "point1".. (the records of    *)
(* the trajectory draw_from_json loaded).  The user confirms every prompt  *)
(* of a segmented move.                                                    *)

\* The number of segments of a move in safety mode when no file sets it.  The
\* source's value is 10; the model takes a number whose interpolated poses
\* stay within the integers of the checker.
DEFAULT_SEGMENTS == 3
DEFAULT_PEN_UP_OFFSET == 10
DEFAULT_PEN_DOWN_OFFSET == 0
MIN_SAFETY_DISTANCE == 5

MmPose(x, y, z) == <<FromInt(x), FromInt(y), FromInt(z), <<11, 5>>, <<11, 5>>, FromInt(0)>>

\* The calibration.json files: none, or one with the keys the controller reads.
ControllerCalibrations ==
    {[exists |-> FALSE]}
    \cup
    {[exists |-> TRUE, home_position |-> MmPose(0, 0, 100), paper_surface_z |-> FromInt(0),
      pen_up_offset |-> FromInt(u), pen_down_offset |-> FromInt(DEFAULT_PEN_DOWN_OFFSET),
      safe_move_segments |-> 3] : u \in {DEFAULT_PEN_UP_OFFSET, 3}}

\* The home position load_calibration reads or, the file missing, sets.
CalibratedHome(calibration) ==
    IF calibration.exists THEN calibration.home_position ELSE MmPose(-37, -295, -10)

\* The reference of an attribute that is None.
NoList == "None"

PointRefs == <<"point1", "point2", "point3", "point4">>

NoLists == [r \in {"calibration", "fresh", "argument"} \cup {PointRefs[k] : k \in 1..Len(PointRefs)} |-> <<>>]

\* __init__ followed by load_calibration: last_known_position is bound to the
\* list home_position names.
load_calibration(calibration) ==
    [home_position |-> "calibration",
     last_known_position |-> "calibration",
     lists |-> [NoLists EXCEPT !["calibration"] = CalibratedHome(calibration)],
     paper_surface_z |-> IF calibration.exists THEN calibration.paper_surface_z
                         ELSE FromInt(-144),
     pen_up_offset |-> IF calibration.exists THEN calibration.pen_up_offset
                       ELSE FromInt(DEFAULT_PEN_UP_OFFSET),
     pen_down_offset |-> IF calibration.exists THEN calibration.pen_down_offset
                         ELSE FromInt(DEFAULT_PEN_DOWN_OFFSET),
     safe_move_segments |-> IF calibration.exists THEN calibration.safe_move_segments
                            ELSE DEFAULT_SEGMENTS,
     safety_mode |-> TRUE,
     connected |-> TRUE,
     calibration |-> calibration]

\* F applied to the value of e: e is evaluated once, before F is.
Then(e, F(_)) == CHOOSE r \in {F(x) : x \in {e}} : TRUE

\* The locals of a running handler: the controller, the scripts the robot
\* got, the number of send_script calls, the call at which the socket breaks
\* (0: never) and the result of the latest call.
Run(c, fail_at) == [c |-> c, log |-> <<>>, attempts |-> 0, fail_at |-> fail_at, ok |-> TRUE]

\* SecondaryClient.send_script: False without a connection; an exception of
\* sendall closes the connection.
send_script(st, script) ==
    IF ~st.c.connected
    THEN [st EXCEPT !.attempts = @ + 1, !.ok = FALSE]
    ELSE IF st.attempts + 1 = st.fail_at
    THEN [st EXCEPT !.attempts = @ + 1, !.ok = FALSE, !.c.connected = FALSE]
    ELSE [st EXCEPT !.attempts = @ + 1, !.ok = TRUE, !.log = Append(@, script)]

pen_down_z(c) == RatAdd(c.paper_surface_z, c.pen_down_offset)
pen_up_z(c) == RatAdd(c.paper_surface_z, c.pen_up_offset)
min_safe_z(c) == RatAdd(c.paper_surface_z, FromInt(MIN_SAFETY_DISTANCE))

\* The list of the six items F(1), ..., F(6).
Pose6(F(_)) == <<F(1), F(2), F(3), F(4), F(5), F(6)>>

\* The list with item j (counted from 1) set to v.
SetItem(list, j, v) == Pose6(LAMBDA k : IF k = j THEN v ELSE list[k])

\* ensure_safe_z: a copy of the pose, its Z raised to the minimum unless it
\* is exactly the drawing height.
ensure_safe_z(c, target_pose) ==
    IF RatLess(target_pose[3], min_safe_z(c)) /\ target_pose[3] # pen_down_z(c)
    THEN SetItem(target_pose, 3, min_safe_z(c))
    ELSE target_pose

PenScript(op, z) ==
    [op |-> op, pose |-> <<>>, z |-> z, i |-> 0, n |-> 0, start |-> <<>>, target |-> <<>>]

MovelScript(pose, i, n, start, target) ==
    [op |-> "movel", pose |-> pose, z |-> pose[3], i |-> i, n |-> n,
     start |-> start, target |-> target]

\* "self.last_known_position[2] = z": an item assignment to the list
\* last_known_position names.
SetKnownZ(c, z) ==
    IF c.last_known_position # NoList
    THEN [c EXCEPT !.lists[c.last_known_position][3] = z]
    ELSE c

\* pen_up and pen_down after send_script: the Z of the known position is set
\* if the script went out.
PenMoved(after, z) ==
    IF after.ok THEN [after EXCEPT !.c = SetKnownZ(after.c, z)] ELSE after

\* pen_up
pen_up(st) ==
    Then(send_script(st, PenScript("pen_up", RatMax(pen_up_z(st.c), min_safe_z(st.c)))),
         LAMBDA after : PenMoved(after, RatMax(pen_up_z(st.c), min_safe_z(st.c))))

\* pen_down
pen_down(st) ==
    Then(send_script(st, PenScript("pen_down", pen_down_z(st.c))),
         LAMBDA after : PenMoved(after, pen_down_z(st.c)))

\* intermediate_pose: start_pose[j] + fraction * (target_pose_mm[j] - start_pose[j])
Interpolate(start_pose, target_pose_mm, i, move_segments) ==
    Pose6(LAMBDA j :
             RatAdd(start_pose[j],
                    RatMul(Rat(i, move_segments), RatSub(target_pose_mm[j], start_pose[j]))))

SegmentPose(c, start_pose, target_pose_mm, i, move_segments, is_drawing) ==
    IF is_drawing THEN Interpolate(start_pose, target_pose_mm, i, move_segments)
    ELSE ensure_safe_z(c, Interpolate(start_pose, target_pose_mm, i, move_segments))

\* move_tcp, safety mode: the for loop from segment i on.  start_pose is
\* rebound to the pose just after at the end of every iteration.
RECURSIVE SegmentLoop(_, _, _, _, _, _, _)

\* The rest of iteration i: the script is sent, start_pose and
\* last_known_position are rebound to the pose just sent.
SegmentSent(after, first_pose, intermediate_pose, target_pose_mm, i, move_segments, is_drawing) ==
    IF ~after.ok THEN after
    ELSE Then([after EXCEPT !.c.lists["fresh"] = intermediate_pose,
                            !.c.last_known_position = "fresh"],
              LAMBDA next : SegmentLoop(next, first_pose, intermediate_pose, target_pose_mm,
                                        i + 1, move_segments, is_drawing))

\* Iteration i with intermediate_pose computed.
SegmentSend(st, first_pose, intermediate_pose, target_pose_mm, i, move_segments, is_drawing) ==
    Then(send_script(st, MovelScript(intermediate_pose, i, move_segments,
                                     first_pose, target_pose_mm)),
         LAMBDA after : SegmentSent(after, first_pose, intermediate_pose, target_pose_mm,
                                    i, move_segments, is_drawing))

SegmentLoop(st, first_pose, start_pose, target_pose_mm, i, move_segments, is_drawing) ==
    IF i > move_segments THEN st
    ELSE Then(SegmentPose(st.c, start_pose, target_pose_mm, i, move_segments, is_drawing),
              LAMBDA intermediate_pose :
                 SegmentSend(st, first_pose, intermediate_pose, target_pose_mm,
                             i, move_segments, is_drawing))

\* move_tcp(target_pose_mm, segments=segments, is_drawing=is_drawing), the
\* argument being the list named target.
\* move_tcp, one move: after send_script, last_known_position is bound to
\* the list target_pose_mm names, the caller's list in a drawing move.
SingleMoved(after, target, target_pose_mm, is_drawing) ==
    IF ~after.ok THEN after
    ELSE IF is_drawing
    THEN [after EXCEPT !.c.last_known_position = target]
    ELSE [after EXCEPT !.c.lists["fresh"] = target_pose_mm,
                       !.c.last_known_position = "fresh"]

\* move_tcp from the try block on, last_known_position being set.
MoveBegun(begun, target, target_pose_mm, start_pose, move_segments, is_drawing) ==
    IF move_segments <= 1
    THEN Then(send_script(begun, MovelScript(target_pose_mm, 1, 1,
                                             start_pose, target_pose_mm)),
              LAMBDA after : SingleMoved(after, target, target_pose_mm, is_drawing))
    ELSE SegmentLoop(begun, start_pose, start_pose, target_pose_mm, 1,
                     move_segments, is_drawing)

\* "if self.last_known_position is None: self.last_known_position =
\* self.home_position"
KnownOrHome(c) ==
    IF c.last_known_position = NoList THEN c.home_position ELSE c.last_known_position

\* target_pose_mm after the safety check, which a drawing move skips.
CheckedTarget(c, target, is_drawing) ==
    IF is_drawing THEN c.lists[target] ELSE ensure_safe_z(c, c.lists[target])

move_tcp(st, target, segments, is_drawing) ==
    Then(<<[st EXCEPT !.c.last_known_position = KnownOrHome(st.c)],
           CheckedTarget(st.c, target, is_drawing),
           st.c.lists[KnownOrHome(st.c)]>>,
         LAMBDA v : MoveBegun(v[1], target, v[2], v[3],
                              IF segments # None THEN Val(segments)
                              ELSE IF st.c.safety_mode THEN st.c.safe_move_segments ELSE 1,
                              is_drawing))

\* move_to_home: the result of pen_up is not looked at.
move_to_home(st) ==
    Then(pen_up(st),
         LAMBDA lifted :
            move_tcp(lifted, st.c.home_position,
                     Some(IF st.c.safety_mode THEN st.c.safe_move_segments ELSE 1), FALSE))

\* abs(z - height) < 2.0
NearZ(z, height) == RatLess(RatAbs(RatSub(z, height)), FromInt(2))

\* "self.last_known_position and self.last_known_position[2] < pen-up height"
KnownBelowPenUp(c) ==
    /\ c.last_known_position # NoList
    /\ RatLess(c.lists[c.last_known_position][3], pen_up_z(c))

\* draw_from_json: at_home
AtHome(c) ==
    /\ c.last_known_position # NoList
    /\ \A j \in 1..3 :
          RatLess(RatAbs(RatSub(c.lists[c.last_known_position][j],
                                c.lists[c.home_position][j])), FromInt(5))

\* draw_from_json, the for loop on trajectory[i]: the pen is switched when
\* this point and the one before differ in height.
SwitchPen(st, i) ==
    LET c            == st.c
        is_pen_down  == NearZ(c.lists[PointRefs[i + 1]][3], pen_down_z(c))
        is_pen_up    == NearZ(c.lists[PointRefs[i + 1]][3], pen_up_z(c))
        was_pen_down == NearZ(c.lists[PointRefs[i]][3], pen_down_z(c))
    IN  IF is_pen_down /\ ~was_pen_down THEN pen_down(st)
        ELSE IF is_pen_up /\ was_pen_down THEN pen_up(st)
        ELSE st

\* "if not self.move_tcp(...)": the pen is lifted and the handler returns.
AfterMove(moved) ==
    IF moved.ok THEN [st |-> moved, ended |-> FALSE]
    ELSE [st |-> pen_up(moved), ended |-> TRUE]

\* The move to trajectory[i]: one move at drawing height, segments in safety
\* mode otherwise.
MovePoint(switched, i, is_pen_down) ==
    Then(move_tcp(switched, PointRefs[i + 1],
                  Some(IF is_pen_down THEN 1
                       ELSE IF switched.c.safety_mode
                            THEN switched.c.safe_move_segments ELSE 1),
                  is_pen_down),
         LAMBDA moved : AfterMove(moved))

\* draw_from_json: one iteration of the for loop, on trajectory[i]; ended
\* tells whether the handler returned in it.
DrawPoint(st, i) ==
    Then(SwitchPen(st, i),
         LAMBDA switched :
            MovePoint(switched, i, NearZ(st.c.lists[PointRefs[i + 1]][3], pen_down_z(st.c))))

RECURSIVE DrawLoop(_, _, _)

DrawNext(step, i, n) == IF step.ended THEN step ELSE DrawLoop(step.st, i + 1, n)

DrawLoop(st, i, n) ==
    IF i >= n THEN [st |-> st, ended |-> FALSE]
    ELSE Then(DrawPoint(st, i), LAMBDA step : DrawNext(step, i, n))

\* json.load: the records of the file become the lists point1, point2, ...
RECURSIVE ReadFrom(_, _, _)
ReadFrom(st, points, k) ==
    IF k > Len(points) THEN st
    ELSE ReadFrom([st EXCEPT !.c.lists[PointRefs[k]] = points[k]], points, k + 1)

ReadPoints(st, points) == ReadFrom(st, points, 1)

\* "Toll felemelése, ha még nincs felemelve"
LiftIfLow(st) == IF KnownBelowPenUp(st.c) THEN pen_up(st) ELSE st

\* The first point's Z is raised to the pen-up height if it is below the
\* minimum: an item assignment to trajectory[0].
RaiseFirstPoint(st) ==
    IF RatLess(st.c.lists["point1"][3], min_safe_z(st.c))
    THEN [st EXCEPT !.c.lists["point1"] = SetItem(@, 3, pen_up_z(st.c)), !.ok = TRUE]
    ELSE [st EXCEPT !.ok = TRUE]

\* "needs_pen_down"
LowerIfNeeded(st) ==
    IF NearZ(st.c.lists["point2"][3], pen_down_z(st.c)) THEN pen_down(st) ELSE st

\* draw_from_json after the loop.
DrawEnd(drawn, return_home) ==
    IF drawn.ended THEN [st |-> drawn.st, result |-> FALSE]
    ELSE Then(LiftIfLow(drawn.st),
              LAMBDA up : [st |-> IF return_home THEN move_to_home(up) ELSE up,
                           result |-> TRUE])

\* draw_from_json after the move to the first point.
DrawMoved(first, n, return_home) ==
    IF ~first.ok THEN [st |-> first, result |-> FALSE]
    ELSE Then(LowerIfNeeded(first),
              LAMBDA lowered :
                 Then(DrawLoop(lowered, 1, n), LAMBDA drawn : DrawEnd(drawn, return_home)))

\* draw_from_json after the optional move to the home position.
DrawHomed(homed, n, return_home) ==
    IF ~homed.ok THEN [st |-> homed, result |-> FALSE]
    ELSE Then(LiftIfLow(homed),
              LAMBDA lifted :
                 Then(move_tcp(RaiseFirstPoint(lifted), "point1", None, FALSE),
                      LAMBDA first : DrawMoved(first, n, return_home)))

DrawRead(read, n, move_home, return_home) ==
    Then(IF ~AtHome(read.c) /\ move_home THEN move_to_home(read) ELSE read,
         LAMBDA homed : DrawHomed(homed, n, return_home))

\* draw_from_json on a file of poses; the user starts the drawing and
\* answers the two questions about the home position.
draw_from_json(st, points, move_home, return_home) ==
    IF Len(points) < 2 THEN [st |-> st, result |-> FALSE]
    ELSE Then(ReadPoints(st, points),
              LAMBDA read : DrawRead(read, Len(points), move_home, return_home))

\* movement_test: the corner moves from corner number k on.
RECURSIVE CornerLoop(_, _, _)

CornerMoved(moved, corners, k) ==
    IF moved.ok THEN CornerLoop(moved, corners, k + 1)
    ELSE [st |-> moved, result |-> FALSE]

CornerLoop(st, corners, k) ==
    IF k > Len(corners) THEN [st |-> st, result |-> TRUE]
    ELSE Then(move_tcp([st EXCEPT !.c.lists["argument"] = corners[k]],
                       "argument", Some(1), FALSE),
              LAMBDA moved : CornerMoved(moved, corners, k))

square_size == 100

\* square_corners[1:]
SquareCorners(start_position) ==
    LET right == SetItem(start_position, 1, RatAdd(start_position[1], FromInt(square_size)))
        upper == SetItem(right, 2, RatAdd(right[2], FromInt(square_size)))
        left  == SetItem(start_position, 2, RatAdd(start_position[2], FromInt(square_size)))
    IN  <<right, upper, left, start_position>>

\* movement_test after the move to the start of the square.
TestMoved(moved, start_position) ==
    IF ~moved.ok THEN [st |-> moved, result |-> FALSE]
    ELSE CornerLoop(moved, SquareCorners(start_position), 1)

\* start_position: a copy of the known position at a safe height.
TestStart(c) ==
    LET known == c.lists[IF c.last_known_position # NoList
                         THEN c.last_known_position ELSE c.home_position]
    IN  SetItem(known, 3, RatMax(known[3], pen_up_z(c)))

TestHomed(homed, move_home, start_position) ==
    IF move_home /\ ~homed.ok THEN [st |-> homed, result |-> FALSE]
    ELSE Then(move_tcp([homed EXCEPT !.c.lists["argument"] = start_position,
                                     !.ok = TRUE],
                       "argument", None, FALSE),
              LAMBDA moved : TestMoved(moved, start_position))

TestBegun(homed, move_home) ==
    Then(TestStart(homed.c),
         LAMBDA start_position : TestHomed(homed, move_home, start_position))

\* movement_test; the user does not ask for a second square.
movement_test(st, move_home) ==
    Then(IF move_home THEN move_to_home(st) ELSE st,
         LAMBDA homed : TestBegun(homed, move_home))

\* The menu of create_gui: one operation of the controller.
MaxOps == 2
MaxFailAt == 2
MaxPoints == 3

\* The handler returns: the controller as it left it, and for the session
\* what it sent and returned.
Returned(op, st, result) ==
    /\ controller' = st.c
    /\ session' = [op |-> op, scripts |-> st.log, result |-> result,
                   ops |-> session.ops + 1]

ReturnedOk(op, st) == \E after \in {st} : Returned(op, after, after.ok)

ReturnedResult(op, run) == \E ended \in {run} : Returned(op, ended.st, ended.result)

PenUp ==
    /\ pc = "controller"
    /\ session.ops < MaxOps
    /\ \E fail_at \in 0..MaxFailAt :
          ReturnedOk("pen_up",
                     pen_up(Run(controller, fail_at)))
    /\ UNCHANGED <<loaded, pc, process, circles, stage, converter, robot_config, genVars,
                   parseVars, mapVars, docVars, replayVars>>

PenDown ==
    /\ pc = "controller"
    /\ session.ops < MaxOps
    /\ \E fail_at \in 0..MaxFailAt :
          ReturnedOk("pen_down",
                     pen_down(Run(controller, fail_at)))
    /\ UNCHANGED <<loaded, pc, process, circles, stage, converter, robot_config, genVars,
                   parseVars, mapVars, docVars, replayVars>>

\* The targets of a move_tcp call, as heights over the paper.
TargetPoints(c) ==
    {<<FromInt(x), FromInt(60), RatAdd(c.paper_surface_z, FromInt(dz)),
       <<11, 5>>, <<11, 5>>, FromInt(0)>> : x \in {30}, dz \in {0, 1, 3, 10}}

MoveTcp ==
    /\ pc = "controller"
    /\ session.ops < MaxOps
    /\ \E fail_at \in 0..MaxFailAt, target \in TargetPoints(controller),
          segments \in {None, Some(1)}, is_drawing \in BOOLEAN :
          ReturnedOk("move_tcp",
                     move_tcp(Run([controller EXCEPT !.lists["argument"] = target], fail_at),
                             "argument", segments, is_drawing))
    /\ UNCHANGED <<loaded, pc, process, circles, stage, converter, robot_config, genVars,
                   parseVars, mapVars, docVars, replayVars>>

MoveToHome ==
    /\ pc = "controller"
    /\ session.ops < MaxOps
    /\ \E fail_at \in 0..MaxFailAt :
          ReturnedOk("move_to_home",
                     move_to_home(Run(controller, fail_at)))
    /\ UNCHANGED <<loaded, pc, process, circles, stage, converter, robot_config, genVars,
                   parseVars, mapVars, docVars, replayVars>>

\* The trajectory files given to draw_from_json: lists of poses.
TrajectoryPoints(c) ==
    {<<FromInt(x), FromInt(0), RatAdd(c.paper_surface_z, FromInt(dz)),
       <<11, 5>>, <<11, 5>>, FromInt(0)>> : x \in {10}, dz \in {0, 1, 10}}

DrawFromJson ==
    /\ pc = "controller"
    /\ session.ops < MaxOps
    /\ \E fail_at \in 0..MaxFailAt,
          points \in SeqsUpTo(TrajectoryPoints(controller), MaxPoints),
          move_home \in BOOLEAN, return_home \in BOOLEAN :
          ReturnedResult("draw_from_json",
                         draw_from_json(Run(controller, fail_at), points, move_home, return_home))
    /\ UNCHANGED <<loaded, pc, process, circles, stage, converter, robot_config, genVars,
                   parseVars, mapVars, docVars, replayVars>>

MovementTest ==
    /\ pc = "controller"
    /\ session.ops < MaxOps
    /\ \E fail_at \in 0..MaxFailAt, move_home \in BOOLEAN :
          ReturnedResult("movement_test",
                         movement_test(Run(controller, fail_at), move_home))
    /\ UNCHANGED <<loaded, pc, process, circles, stage, converter, robot_config, genVars,
                   parseVars, mapVars, docVars, replayVars>>

\* toggle_safety_mode
ToggleSafetyMode ==
    /\ pc = "controller"
    /\ session.ops < MaxOps
    /\ controller' = [controller EXCEPT !.safety_mode = ~@]
    /\ session' = [op |-> "toggle_safety_mode", scripts |-> <<>>,
                   result |-> controller'.safety_mode, ops |-> session.ops + 1]
    /\ UNCHANGED <<loaded, pc, process, circles, stage, converter, robot_config, genVars,
                   parseVars, mapVars, docVars, replayVars>>

ControllerInit ==
    /\ pc = "controller"
    /\ loaded = <<>>
    /\ controller \in {load_calibration(f) : f \in ControllerCalibrations}
    /\ session = [op |-> "load_calibration", scripts |-> <<>>, result |-> TRUE, ops |-> 0]
    /\ ProcessIdle
    /\ CircleIdle
    /\ StageIdle
    /\ converter = "Onlab"
    /\ robot_config = RobotConfigDefaults
    /\ GenIdle
    /\ ParseIdle
    /\ MapIdle
    /\ DocIdle
    /\ ReplayIdle

ControllerNext ==
    \/ PenUp
    \/ PenDown
    \/ MoveTcp
    \/ MoveToHome
    \/ DrawFromJson
    \/ MovementTest
    \/ ToggleSafetyMode

SpecController == ControllerInit /\ [][ControllerNext]_vars

\* C24: the home position the controller holds is the one load_calibration
\* loaded, whatever motion operations have run since.
C24_HomePositionKeepsLoadedValues ==
    pc = "controller"
    => controller.lists[controller.home_position] = CalibratedHome(controller.calibration)

\* The scripts of the session that move_tcp sent.
MovelScripts == {k \in 1..Len(session.scripts) : session.scripts[k].op = "movel"}

\* C27: every pose move_tcp sends during draw_from_json, move_to_home or
\* movement_test has its Z exactly at the pen-down height or at least
\* MIN_SAFETY_DISTANCE over the paper, in one move and in segments alike.
C27_SentPosesAtPenDownOrSafe ==
    /\ pc = "controller"
    /\ session.op \in {"draw_from_json", "move_to_home", "movement_test"}
    => \A k \in MovelScripts :
          \/ session.scripts[k].z = pen_down_z(controller)
          \/ RatLeq(min_safe_z(controller), session.scripts[k].z)

\* start + (i/N) * (target - start)
EqualSegmentPose(start, target, i, n) ==
    <<RatAdd(start[1], RatMul(Rat(i, n), RatSub(target[1], start[1]))),
      RatAdd(start[2], RatMul(Rat(i, n), RatSub(target[2], start[2]))),
      RatAdd(start[3], RatMul(Rat(i, n), RatSub(target[3], start[3]))),
      RatAdd(start[4], RatMul(Rat(i, n), RatSub(target[4], start[4]))),
      RatAdd(start[5], RatMul(Rat(i, n), RatSub(target[5], start[5]))),
      RatAdd(start[6], RatMul(Rat(i, n), RatSub(target[6], start[6])))>>

\* C30: a move_tcp call in safety mode sends N poses, the i-th being
\* start + (i/N) * (target - start) with start the known position at the
\* call, and the N-th the target.
C30_SegmentsAreEqualSteps ==
    /\ pc = "controller"
    /\ session.op = "move_tcp"
    /\ session.result
    => \A k \in MovelScripts :
          LET script == session.scripts[k]
          IN  script.n > 1
              => /\ script.i = k
                 /\ script.pose = EqualSegmentPose(script.start, script.target, k, script.n)
                 /\ k = script.n => script.pose = script.target

\* C26: the drawing centre of a constructed RobotConfig, calibration file
\* present, absent or unreadable, is the XY of the home position, which is
\* the XY of the trailing Move the generator appends.
C26_CentreIsHomeXY ==
    /\ pc = "done"
    /\ converter = "Onlab"
    /\ trajectory # <<>>
    => /\ robot_config.center_x = robot_config.home_position[1]
       /\ robot_config.center_y = robot_config.home_position[2]
       /\ robot_config.center_x = Last(trajectory)[2][1]
       /\ robot_config.center_y = Last(trajectory)[2][2]

-----------------------------------------------------------------------------
(* main_drawing.py and Onlab/claude_project.py UR3eDrawingApp:             *)
(* execute_trajectory and the motion primitives it calls.  The two files   *)
(* hold the same handler; main_drawing.py prompts between the steps.       *)
(* Lengths are mm.  session holds the attributes of the app, the locals of *)
(* the handler and the movel commands handed to the interpreter.           *)
(* get_current_position answers with the pose of the last executed movel.  *)

Exec_PEN_UP_Z == 70
Exec_PEN_DOWN_Z == 0

\* pen_down: the number of steps of the approach.
steps == 10

\* The pose with its Z replaced.
SetZ(pose, z) == <<pose[1], pose[2], z, pose[4], pose[5], pose[6]>>

\* The locals of one iteration: the calls of move_tcp so far, the call at
\* which the interpreter raises (0: never) and the result of the last call.
ExecRun(s, step, fail_at) ==
    [s EXCEPT !.step = step, !.calls = 0, !.fail_at = fail_at, !.ok = TRUE]

\* move_tcp: the movel command is executed and awaited; an exception of the
\* interpreter makes the result False.
App_move_tcp(st, by, pose) ==
    IF st.calls + 1 = st.fail_at
    THEN [st EXCEPT !.calls = @ + 1, !.ok = FALSE,
                    !.log = Append(@, [by |-> by, step |-> st.step, pose |-> pose,
                                       ok |-> FALSE])]
    ELSE [st EXCEPT !.calls = @ + 1, !.ok = TRUE,
                    !.position = pose,
                    !.log = Append(@, [by |-> by, step |-> st.step, pose |-> pose,
                                       ok |-> TRUE])]

\* pen_up: the current position with Z = surface_z + PEN_UP_Z
App_pen_up(st) ==
    App_move_tcp(st, "pen_up", SetZ(st.position, st.surface_z + Exec_PEN_UP_Z))

\* pen_down: the for loop from step i on.
RECURSIVE PenDownLoop(_, _, _, _, _)
PenDownLoop(st, new_position, current_z, target_z, i) ==
    IF i > steps THEN st
    ELSE LET intermediate_z == current_z - ((current_z - target_z) * i) \div steps
             after == App_move_tcp(st, "pen_down", SetZ(new_position, intermediate_z))
         IN  IF ~after.ok THEN after
             ELSE PenDownLoop(after, new_position, current_z, target_z, i + 1)

\* pen_down: the current position lowered to surface_z + PEN_DOWN_Z
App_pen_down(st) ==
    PenDownLoop(st, SetZ(st.position, st.surface_z + Exec_PEN_DOWN_Z),
                st.position[3], st.surface_z + Exec_PEN_DOWN_Z, 1)

App_move_to_home(st) == App_move_tcp(st, "move_to_home", st.home_position)

\* "return result"
ExecReturn(st, result) ==
    [st EXCEPT !.phase = "returned", !.result = result,
               !.calls = 0, !.fail_at = 0, !.ok = TRUE]

\* The end of an iteration that returned nothing.
ExecContinue(st) ==
    [st EXCEPT !.i = @ + 1, !.calls = 0, !.fail_at = 0, !.ok = TRUE]

\* "for cmd, pose in trajectory" unpacks a record of two items.
Unpacks(record) == Len(record) = 2

\* A 'move' step: the pen is lifted if it is down, then the move.
MoveStep(st, pose) ==
    LET lifted == IF st.pen_is_down THEN App_pen_up(st) ELSE st
        moved  == App_move_tcp([lifted EXCEPT !.pen_is_down = FALSE], "move_tcp", pose)
    IN  IF ~lifted.ok THEN ExecReturn(lifted, FALSE)
        ELSE IF ~moved.ok THEN ExecReturn(moved, FALSE)
        ELSE ExecContinue(moved)

\* A 'line' step with the pen down.
LineStepDown(st, pose) ==
    LET moved == App_move_tcp(st, "move_tcp", pose)
    IN  IF ~moved.ok THEN ExecReturn(moved, FALSE) ELSE ExecContinue(moved)

\* A 'line' step with the pen up: up_pose is a copy of the step's pose at
\* pen-up height; the pen is moved there, lowered, and moved to the pose.
LineStepUp(st, pose) ==
    LET up_pose == SetZ(pose, st.surface_z + Exec_PEN_UP_Z)
        above   == App_move_tcp(st, "move_tcp", up_pose)
        lowered == App_pen_down(above)
    IN  IF ~above.ok THEN ExecReturn(above, FALSE)
        ELSE IF ~lowered.ok THEN ExecReturn(lowered, FALSE)
        ELSE LineStepDown([lowered EXCEPT !.pen_is_down = TRUE], pose)

\* The except clause: pen_up, then return False.
ExecExcept(st) == ExecReturn(App_pen_up(st), FALSE)

\* The code after the for loop.
ExecEnd(st) ==
    LET lifted == IF st.pen_is_down THEN App_pen_up(st) ELSE st
        homed  == App_move_to_home(lifted)
    IN  IF ~lifted.ok THEN ExecReturn(lifted, FALSE)
        ELSE IF ~homed.ok THEN ExecReturn(homed, FALSE)
        ELSE ExecReturn(homed, TRUE)

\* The greatest number of move_tcp calls of one iteration.
MaxCalls == steps + 2

\* execute_trajectory up to the for loop.
ExecBegin ==
    /\ pc = "execute" /\ session.phase = "begin"
    /\ \E fail_at \in 0..1 :
          LET up == App_pen_up(ExecRun(session, 0, fail_at))
          IN  session' = IF session.trajectory = <<>> THEN ExecReturn(session, FALSE)
                         ELSE IF ~up.ok THEN ExecReturn(up, FALSE)
                         ELSE [up EXCEPT !.phase = "loop", !.pen_is_down = FALSE,
                                         !.calls = 0, !.fail_at = 0]
    /\ UNCHANGED <<loaded, controller, pc, process, circles, stage, converter, robot_config,
                   genVars, parseVars, mapVars, docVars, replayVars>>

\* One iteration of the for loop on a 'move' step.
ExecMove ==
    /\ pc = "execute" /\ session.phase = "loop"
    /\ session.i < Len(session.trajectory)
    /\ Unpacks(session.trajectory[session.i + 1])
    /\ session.trajectory[session.i + 1][1] = "move"
    /\ \E fail_at \in 0..MaxCalls :
          session' = MoveStep(ExecRun(session, session.i + 1, fail_at),
                              session.trajectory[session.i + 1][2])
    /\ UNCHANGED <<loaded, controller, pc, process, circles, stage, converter, robot_config,
                   genVars, parseVars, mapVars, docVars, replayVars>>

\* One iteration of the for loop on a 'line' step.
ExecLine ==
    /\ pc = "execute" /\ session.phase = "loop"
    /\ session.i < Len(session.trajectory)
    /\ Unpacks(session.trajectory[session.i + 1])
    /\ session.trajectory[session.i + 1][1] = "line"
    /\ \E fail_at \in 0..MaxCalls :
          session' = IF session.pen_is_down
                     THEN LineStepDown(ExecRun(session, session.i + 1, fail_at),
                                       session.trajectory[session.i + 1][2])
                     ELSE LineStepUp(ExecRun(session, session.i + 1, fail_at),
                                     session.trajectory[session.i + 1][2])
    /\ UNCHANGED <<loaded, controller, pc, process, circles, stage, converter, robot_config,
                   genVars, parseVars, mapVars, docVars, replayVars>>

\* The for statement raises on a record that is not a pair; the except
\* clause runs.
ExecRaise ==
    /\ pc = "execute" /\ session.phase = "loop"
    /\ session.i < Len(session.trajectory)
    /\ ~Unpacks(session.trajectory[session.i + 1])
    /\ \E fail_at \in 0..1 :
          session' = ExecExcept(ExecRun(session, session.i + 1, fail_at))
    /\ UNCHANGED <<loaded, controller, pc, process, circles, stage, converter, robot_config,
                   genVars, parseVars, mapVars, docVars, replayVars>>

\* The loop is over: the pen is lifted and the robot sent home.
ExecFinish ==
    /\ pc = "execute" /\ session.phase = "loop"
    /\ session.i = Len(session.trajectory)
    /\ \E fail_at \in 0..2 :
          session' = ExecEnd(ExecRun(session, session.i + 1, fail_at))
    /\ UNCHANGED <<loaded, controller, pc, process, circles, stage, converter, robot_config,
                   genVars, parseVars, mapVars, docVars, replayVars>>

MaxExecSteps == 3

\* The records of a trajectory file: steps of the root generator, and a
\* record of one item.
ExecRecords ==
    {RootStep(cmd) : cmd \in {<<"move", 0, 0>>, <<"line", 0, 0>>, <<"line", 30, 40>>}}
    \cup {<<"line">>}

\* The apps after calibrate_surface: the robot stands at the home position,
\* PEN_UP_Z over the surface.
ExecApps ==
    {[app |-> a, surface_z |-> z,
      home_position |-> <<-37, -295, z + Exec_PEN_UP_Z, 0, 314, 0>>,
      position |-> <<-37, -295, z + Exec_PEN_UP_Z, 0, 314, 0>>,
      trajectory |-> t, phase |-> "begin", i |-> 0, step |-> 0, pen_is_down |-> FALSE,
      log |-> <<>>, result |-> FALSE, calls |-> 0, fail_at |-> 0, ok |-> TRUE] :
        a \in {"main_drawing", "claude_project"}, z \in {Root_Z_SURFACE},
        t \in SeqsUpTo(ExecRecords, MaxExecSteps)}

ExecInit ==
    /\ pc = "execute"
    /\ loaded = <<>>
    /\ controller = <<>>
    /\ session \in ExecApps
    /\ ProcessIdle
    /\ CircleIdle
    /\ StageIdle
    /\ converter = "root"
    /\ robot_config = RobotConfigDefaults
    /\ GenIdle
    /\ ParseIdle
    /\ MapIdle
    /\ DocIdle
    /\ ReplayIdle

ExecNext ==
    \/ ExecBegin
    \/ ExecMove
    \/ ExecLine
    \/ ExecRaise
    \/ ExecFinish

SpecExec == ExecInit /\ [][ExecNext]_vars

\* The commands of pen_down that the robot executed.
PenDownCalls ==
    {j \in 1..Len(session.log) : session.log[j].by = "pen_down" /\ session.log[j].ok}

\* C28: a 'line' step met with the pen up has the pen lowered at the XY of
\* the step before it, so that the segment from there to the line's target
\* is drawn.
C28_PenLoweredAtPrecedingXY ==
    pc = "execute"
    => \A j \in PenDownCalls :
          LET k == session.log[j].step
          IN  k > 1
              => /\ session.log[j].pose[1] = session.trajectory[k - 1][2][1]
                 /\ session.log[j].pose[2] = session.trajectory[k - 1][2][2]

\* C29: when execute_trajectory returns False after the pen was lowered,
\* be it on a False of move_tcp or pen_down or on an exception, a pen-up
\* command was issued after the lowering.
C29_FailureLiftsThePen ==
    /\ pc = "execute"
    /\ session.phase = "returned"
    /\ ~session.result
    => \A j \in PenDownCalls :
          \E u \in (j + 1)..Len(session.log) : session.log[u].by = "pen_up"

-----------------------------------------------------------------------------
(* A robot session: a client sends motion commands over one connection and *)
(* the robot executes them one after the other.  The clients are the       *)
(* drawing loop of Onlab/drawing_app.py, move_tcp of Onlab/csakdash.py and *)
(* move_tcp of main_drawing.py.  Time is counted in units of the sleep the *)
(* client takes after a send; a motion takes the robot a number of units   *)
(* the client does not choose.  session holds the client's position in its *)
(* code and the robot's commands that are not completed, each with the     *)
(* time it still takes.                                                    *)

MaxMotions == 3
MaxDuration == 3

\* The robot gets a motion command that will take it duration units.
RobotReceives(s, duration) ==
    [s EXCEPT !.inflight = Append(@, duration), !.i = @ + 1, !.cmd_id = @ + 1]

\* drawing_app.py main: "if move_to_position(client, trajectory[i]):
\* time.sleep(0.35)"
SendDrawingApp ==
    /\ pc = "session" /\ session.client = "drawing_app"
    /\ session.phase = "ready"
    /\ session.i < session.n
    /\ \E duration \in 1..MaxDuration :
          session' = [RobotReceives(session, duration) EXCEPT !.phase = "sleep"]
    /\ UNCHANGED <<loaded, controller, pc, process, circles, stage, converter, robot_config,
                   genVars, parseVars, mapVars, docVars, replayVars>>

\* csakdash.py move_tcp: send_script, then time.sleep(wait_time), "since we
\* get no feedback".
SendCsakdash ==
    /\ pc = "session" /\ session.client = "csakdash"
    /\ session.phase = "ready"
    /\ session.i < session.n
    /\ \E duration \in 1..MaxDuration :
          session' = [RobotReceives(session, duration) EXCEPT !.phase = "sleep"]
    /\ UNCHANGED <<loaded, controller, pc, process, circles, stage, converter, robot_config,
                   genVars, parseVars, mapVars, docVars, replayVars>>

\* main_drawing.py move_tcp: cmd_id = execute_command(cmd), then the loop
\* "while get_last_executed_id() < cmd_id".
SendMainDrawing ==
    /\ pc = "session" /\ session.client = "main_drawing"
    /\ session.phase = "ready"
    /\ session.i < session.n
    /\ \E duration \in 1..MaxDuration :
          session' = [RobotReceives(session, duration) EXCEPT !.phase = "await"]
    /\ UNCHANGED <<loaded, controller, pc, process, circles, stage, converter, robot_config,
                   genVars, parseVars, mapVars, docVars, replayVars>>

\* The robot after one unit of time: the command it executes is a unit
\* nearer to its end, and completed if no time is left.
RobotAfterUnit(s) ==
    IF s.inflight = <<>> THEN s
    ELSE IF Head(s.inflight) > 1
    THEN [s EXCEPT !.inflight = <<Head(@) - 1>> \o Tail(@)]
    ELSE [s EXCEPT !.inflight = Tail(@), !.last_executed_id = @ + 1]

\* The client after one unit of time: time.sleep returns; the polling loop
\* ends if the robot has executed the command.
ClientAfterUnit(s) ==
    IF s.phase = "sleep" THEN [s EXCEPT !.phase = "ready"]
    ELSE IF s.phase = "await" /\ s.last_executed_id >= s.cmd_id
    THEN [s EXCEPT !.phase = "ready"]
    ELSE s

\* One unit of time passes.
TimePasses ==
    /\ pc = "session"
    /\ session.phase \in {"sleep", "await"} \/ session.inflight # <<>>
    /\ session' = ClientAfterUnit(RobotAfterUnit(session))
    /\ UNCHANGED <<loaded, controller, pc, process, circles, stage, converter, robot_config,
                   genVars, parseVars, mapVars, docVars, replayVars>>

SessionInit ==
    /\ pc = "session"
    /\ loaded = <<>>
    /\ controller = <<>>
    /\ session \in {[client |-> c, n |-> n, i |-> 0, phase |-> "ready", inflight |-> <<>>,
                     cmd_id |-> 0, last_executed_id |-> 0] :
                       c \in {"drawing_app", "csakdash", "main_drawing"}, n \in 1..MaxMotions}
    /\ ProcessIdle
    /\ CircleIdle
    /\ StageIdle
    /\ converter = "Onlab"
    /\ robot_config = RobotConfigDefaults
    /\ GenIdle
    /\ ParseIdle
    /\ MapIdle
    /\ DocIdle
    /\ ReplayIdle

SessionNext ==
    \/ SendDrawingApp
    \/ SendCsakdash
    \/ SendMainDrawing
    \/ TimePasses

SpecSession == SessionInit /\ [][SessionNext]_vars

\* C25: on a robot session a motion command is sent only after the one
\* before it has completed: at most one motion command is in flight,
\* however long the robot takes over a motion.
C25_OneMotionInFlight ==
    pc = "session" => Len(session.inflight) <= 1

=============================================================================
